---------------------------- MODULE Spec2Model ----------------------------
(***************************************************************************)
(* State-activation engine of ai_mind_test1.                               *)
(*                                                                         *)
(* Three variants of the engine live in the repository:                    *)
(*   ai_mind1.py / ai_mind2.py  class EmotionalMind   (active_nodes)       *)
(*   ai_mind3.py                class EmotionalMindV3 (state_weights,      *)
(*                              delayed re-analysis tasks)                 *)
(*                                                                         *)
(* Numbers.  Activation levels and weights are Python floats in [0, 1].    *)
(* They are modelled in fixed point: the integer n stands for n / Scale,   *)
(* so 1.0 is Scale, 0.7 is 700, 0.999 is 999.  A product of two levels is  *)
(* rounded down to a multiple of 1 / Scale.                                *)
(*                                                                         *)
(* Names.  The state names of the source are Cyrillic; they are written    *)
(* in Latin transliteration here (Trevoga, Gnev, ...), and so are the keys *)
(* of a state definition: nazvanie (name), usloviya (conditions), ves      *)
(* (weight).                                                               *)
(*                                                                         *)
(* Dictionaries.  A Python dict keeps its insertion order and the loops of *)
(* the engine iterate in that order, so a dict is a sequence of            *)
(* <<key, value>> pairs with pairwise distinct keys.                       *)
(***************************************************************************)
EXTENDS Integers, Sequences, FiniteSets, TLC

VARIABLES
    states_tree,          \* the loaded state graph (list of state definitions)
    active_nodes,         \* EmotionalMind.active_nodes: dict name -> level
    short_term_memory,    \* EmotionalMind.short_term_memory: list of entries
    empathy_target,       \* EmotionalMind.empathy_target
    conversation_history, \* EmotionalMind.conversation_history
    archived,             \* every entry short_term_memory.append was given, in order
    pressure,             \* the value returned by the last calculate_pressure
    world_model,          \* EmotionalMind.world_model["concepts"]
    world_model_file,     \* the concepts in the file at knowledge_path
    returned,             \* what the last process_message returned
    state_weights,        \* EmotionalMindV3.state_weights: dict name -> weight
    memory_file,          \* the records appended to analyze.txt
    mainPc,               \* where main of ai_mind3.py is suspended
    tasks,                \* the delayed_analysis tasks created so far
    call,                 \* the last completed call: its name and arguments
    before,               \* the store as it was when that call started
    nCalls                \* number of calls made so far

\* the store and the record of the last call on it
storeVars == <<active_nodes, call, before, nCalls>>

\* what archive_current_state reads and writes besides the store
memoryVars == <<short_term_memory, empathy_target, conversation_history, archived>>

\* the rest of EmotionalMind that process_message writes
turnVars == <<world_model, world_model_file, returned>>

\* EmotionalMindV3 and the event loop of ai_mind3.py
v3Vars == <<state_weights, memory_file, mainPc, tasks>>

vars == <<states_tree, storeVars, memoryVars, pressure, turnVars, v3Vars>>

---------------------------------------------------------------------------
(* Bounds of the model.                                                    *)

MaxCalls == 3

MaxList == 2

MaxScenarioCalls == 1

MaxTurns == 7

MaxWeightCalls == 3

MaxSessionTurns == 2

MaxDecays == 2

MaxDialogueTurns == 2

\* the deepest nesting of calls the interpreter allows
RecursionLimit == 8

---------------------------------------------------------------------------
(* Fixed point and the constants of ai_mind2.py.                           *)

Scale == 1000

Min(a, b) == IF a < b THEN a ELSE b

Max(a, b) == IF a > b THEN a ELSE b

\* x * f for two fixed-point numbers
Mul(x, f) == (x * f) \div Scale

BaseActivation == 700

ActivateBump == 400

IncreaseBump == 200

DecayFactor == 920

Epsilon == 100

PropagationFactor == 500

PropagationMinActivation == 100

CreationThreshold == 200

TriggerAttenuation == 400

AmbientAttenuation == 700

SignificanceThreshold == 300

MemoryLimit == 5

DefaultUrgency == 500

\* propagate_activation(iterations = 3)
Iterations == 3

trigger_nodes == {"Utochnenie", "Vyvod", "Priznanie", "Gnev", "Somnenie"}

urgency_weights ==
    ("Gnev" :> 900) @@ ("Utochnenie" :> 700) @@ ("Vyvod" :> 800) @@
    ("Priznanie" :> 700) @@ ("Somnenie" :> 300) @@ ("O gryozah" :> 100) @@
    ("Trevoga" :> 600) @@ ("Sozhalenie" :> 400)

---------------------------------------------------------------------------
(* Python dict as a sequence of <<key, value>> pairs.                      *)

Range(s) == {s[i] : i \in 1..Len(s)}

Keys(d) == {d[i][1] : i \in 1..Len(d)}

Has(d, k) == k \in Keys(d)

Get(d, k, default) ==
    IF Has(d, k) THEN d[CHOOSE i \in 1..Len(d) : d[i][1] = k][2] ELSE default

\* d[k] = v: an existing key keeps its place, a new key goes to the end
Put(d, k, v) ==
    IF Has(d, k)
    THEN [i \in 1..Len(d) |-> IF d[i][1] = k THEN <<k, v>> ELSE d[i]]
    ELSE Append(d, <<k, v>>)

\* del d[k]
Del(d, k) == SelectSeq(d, LAMBDA p : p[1] # k)

\* the dict as a mapping, its order forgotten
AsMap(d) == [k \in Keys(d) |-> Get(d, k, 0)]

IsDict(d) == \A i, j \in 1..Len(d) : d[i][1] = d[j][1] => i = j

---------------------------------------------------------------------------
(* What json.loads returns, each value with its Python type.               *)

JList(items) == [type |-> "list", items |-> items]

JStr(s) == [type |-> "string", s |-> s]

JBool(b) == [type |-> "bool", b |-> b]

JNum(n) == [type |-> "number", n |-> n]

\* an object, which is a dict
JDict(d) == [type |-> "dict", items |-> d]

\* null, which is None
JNull == [type |-> "null"]

\* an exception in place of a value
Raised == [type |-> "raised"]

\* a list of names
Names(l) == JList([i \in 1..Len(l) |-> JStr(l[i])])

\* the value in a condition, a list counting as true even when empty
TruthyWhenPresent(v) ==
    CASE v.type = "bool" -> v.b
      [] v.type = "null" -> FALSE
      [] v.type = "number" -> v.n # 0
      [] v.type = "string" -> v.s # ""
      [] v.type = "list" -> TRUE

\* the value in a condition: if v, v and w
Truthy(v) ==
    CASE v.type = "bool" -> v.b
      [] v.type = "null" -> FALSE
      [] v.type = "number" -> v.n # 0
      [] v.type = "string" -> v.s # ""
      [] v.type = "list" -> v.items # <<>>

\* for state in v, each state then used as the key of a dict lookup.  A
\* list gives its items; an item that is a list cannot be hashed, the lookup
\* raises TypeError and the loop ends there.  None and a number cannot be
\* iterated: TypeError before the first item.  A string gives its
\* characters, none of which is the name of a state.  The result is
\* [raised, names], names being the items the loop got through.
Iterate(v) ==
    IF v.type = "list"
    THEN LET unhashable == {i \in 1..Len(v.items) : v.items[i].type = "list"}
             stop == IF unhashable = {} THEN Len(v.items) + 1
                     ELSE CHOOSE i \in unhashable : \A j \in unhashable : i <= j
         IN  [raised |-> unhashable # {},
              names |-> [i \in 1..(stop - 1) |-> v.items[i].s]]
    ELSE IF v.type = "string" THEN [raised |-> FALSE, names |-> <<>>]
    ELSE [raised |-> TRUE, names |-> <<>>]

---------------------------------------------------------------------------
(* The state graph.                                                        *)

Node(n, c, w) == [nazvanie |-> n, usloviya |-> c, ves |-> w]

\* experiments/test_state_propagation.py: Pustota -> Trevoga -> Gnev ->
\* Obektivizaciya, Trevoga -> Somnenie (a child lists its parent as condition)
test_tree ==
    << Node("Pustota", <<>>, 0),
       Node("Trevoga", <<"Pustota">>, 0),
       Node("Gnev", <<"Trevoga">>, 0),
       Node("Obektivizaciya", <<"Gnev">>, 0),
       Node("Somnenie", <<"Trevoga">>, 0) >>

\* a graph with a state fed by two parents, reached from the root along two
\* paths, one of whose conditions names a state that is not defined
diamond_tree ==
    << Node("Pustota", <<>>, 0),
       Node("Trevoga", <<"Pustota">>, 0),
       Node("Sozhalenie", <<"Pustota">>, 0),
       Node("Gnev", <<"Trevoga", "Sozhalenie", "Neopredelennoe">>, 0) >>

\* a chain whose states start with weights: one below the threshold by
\* 0.001, one that a single bump of 0.2 brings to the threshold
weighted_tree ==
    << Node("Pustota", <<>>, 0),
       Node("Trevoga", <<"Pustota">>, 800),
       Node("Gnev", <<"Trevoga">>, 999) >>

\* a graph whose conditions form cycles: Trevoga and Gnev list each other,
\* Somnenie lists itself
cyclic_tree ==
    << Node("Pustota", <<>>, 0),
       Node("Trevoga", <<"Gnev">>, 0),
       Node("Gnev", <<"Trevoga">>, 0),
       Node("Somnenie", <<"Somnenie">>, 0) >>

\* find_children with the edge read backwards: the conditions of the state
find_children_reversed(tree, parent_name) ==
    LET hit == SelectSeq([i \in 1..Len(tree) |-> i],
                         LAMBDA i : tree[i].nazvanie = parent_name)
    IN  IF hit = <<>> THEN <<>> ELSE tree[hit[1]].usloviya

\* nodes_map / states_dict: the names defined by the graph
nodes_map(tree) == {tree[i].nazvanie : i \in 1..Len(tree)}

\* find_children: every state that lists parent_name among its conditions,
\* in the order of the graph
find_children(tree, parent_name) ==
    LET hit == SelectSeq([i \in 1..Len(tree) |-> i],
                         LAMBDA i : parent_name \in Range(tree[i].usloviya))
    IN  [j \in 1..Len(hit) |-> tree[hit[j]].nazvanie]

---------------------------------------------------------------------------
(* EmotionalMind (ai_mind2.py): the operations on active_nodes.            *)

\* the first loop of update_activation without the lookup in nodes_map
RECURSIVE ActivateLoopUnchecked(_, _, _)
ActivateLoopUnchecked(tree, d, states_to_activate) ==
    IF states_to_activate = <<>> THEN d
    ELSE LET state == Head(states_to_activate)
             d1 == IF Has(d, state)
                   THEN Put(d, state, Min(Scale, Get(d, state, 0) + ActivateBump))
                   ELSE Put(d, state, BaseActivation)
         IN  ActivateLoopUnchecked(tree, d1, Tail(states_to_activate))

\* the first loop entering a new state at the bump instead of the base level
RECURSIVE ActivateLoopAdditive(_, _, _)
ActivateLoopAdditive(tree, d, states_to_activate) ==
    IF states_to_activate = <<>> THEN d
    ELSE LET state == Head(states_to_activate)
             d1 == IF state \in nodes_map(tree)
                   THEN Put(d, state, Min(Scale, Get(d, state, 0) + ActivateBump))
                   ELSE d
         IN  ActivateLoopAdditive(tree, d1, Tail(states_to_activate))

\* update_activation, first loop: a state of the graph is entered at the
\* base level, or raised by 0.4 when it is already there
RECURSIVE ActivateLoop(_, _, _)
ActivateLoop(tree, d, states_to_activate) ==
    IF states_to_activate = <<>> THEN d
    ELSE LET state == Head(states_to_activate)
             d1 == IF state \in nodes_map(tree)
                   THEN IF Has(d, state)
                        THEN Put(d, state, Min(Scale, Get(d, state, 0) + ActivateBump))
                        ELSE Put(d, state, BaseActivation)
                   ELSE d
         IN  ActivateLoop(tree, d1, Tail(states_to_activate))

\* update_activation, second loop: a state already in the store is raised
\* by 0.2
RECURSIVE IncreaseLoop(_, _)
IncreaseLoop(d, states_to_increase) ==
    IF states_to_increase = <<>> THEN d
    ELSE LET state == Head(states_to_increase)
             d1 == IF Has(d, state)
                   THEN Put(d, state, Min(Scale, Get(d, state, 0) + IncreaseBump))
                   ELSE d
         IN  IncreaseLoop(d1, Tail(states_to_increase))

\* the decay step testing the entry before it is multiplied
DecayStepTestFirst(d, factor) ==
    LET kept == SelectSeq(d, LAMBDA p : ~(p[2] < Epsilon))
    IN  [i \in 1..Len(kept) |-> <<kept[i][1], Mul(kept[i][2], factor)>>]

\* the decay step of update_activation for a factor: every entry is
\* multiplied by it, and deleted when the product is below 0.1
DecayStep(d, factor) ==
    SelectSeq([i \in 1..Len(d) |-> <<d[i][1], Mul(d[i][2], factor)>>],
              LAMBDA p : ~(p[2] < Epsilon))

\* the third loop without the deletion
DecayLoopKeeping(d) == [i \in 1..Len(d) |-> <<d[i][1], Mul(d[i][2], DecayFactor)>>]

\* update_activation, third loop: every entry is multiplied by 0.92 and
\* deleted when it falls below 0.1
DecayLoop(d) == DecayStep(d, DecayFactor)

update_activation(tree, d, states_to_activate, states_to_increase) ==
    DecayLoop(IncreaseLoop(ActivateLoop(tree, d, states_to_activate),
                           states_to_increase))

\* propagate_activation, inner loop over the children of one active state:
\* each child accumulates activation * 0.5 in new_activations
RECURSIVE InfluenceChildren(_, _, _)
InfluenceChildren(new_activations, children, activation) ==
    IF children = <<>> THEN new_activations
    ELSE LET child == Head(children)
             influence == Mul(activation, PropagationFactor)
             n1 == IF Has(new_activations, child)
                   THEN Put(new_activations, child,
                            Min(Scale, Get(new_activations, child, 0) + influence))
                   ELSE Put(new_activations, child, influence)
         IN  InfluenceChildren(n1, Tail(children), activation)

\* propagate_activation, loop over list(self.active_nodes.items()): the
\* items are those of the store when the iteration starts
RECURSIVE CollectInfluences(_, _, _)
CollectInfluences(tree, items, new_activations) ==
    IF items = <<>> THEN new_activations
    ELSE LET state_name == Head(items)[1]
             activation == Head(items)[2]
             n1 == IF activation < PropagationMinActivation
                   THEN new_activations
                   ELSE InfluenceChildren(new_activations,
                                          find_children(tree, state_name),
                                          activation)
         IN  CollectInfluences(tree, Tail(items), n1)

\* the update loop without the cap at 1.0
RECURSIVE ApplyInfluencesUncapped(_, _)
ApplyInfluencesUncapped(d, new_activations) ==
    IF new_activations = <<>> THEN d
    ELSE LET state == Head(new_activations)[1]
             value == Head(new_activations)[2]
             d1 == IF Has(d, state)
                   THEN Put(d, state, Get(d, state, 0) + value)
                   ELSE IF value > CreationThreshold
                        THEN Put(d, state, value)
                        ELSE d
         IN  ApplyInfluencesUncapped(d1, Tail(new_activations))

\* the update loop with the creation threshold read as "at least 0.2"
RECURSIVE ApplyInfluencesInclusive(_, _)
ApplyInfluencesInclusive(d, new_activations) ==
    IF new_activations = <<>> THEN d
    ELSE LET state == Head(new_activations)[1]
             value == Head(new_activations)[2]
             d1 == IF Has(d, state)
                   THEN Put(d, state, Min(Scale, Get(d, state, 0) + value))
                   ELSE IF value >= CreationThreshold
                        THEN Put(d, state, value)
                        ELSE d
         IN  ApplyInfluencesInclusive(d1, Tail(new_activations))

\* the update loop entering a new child at the base level of update_activation
RECURSIVE ApplyInfluencesBase(_, _)
ApplyInfluencesBase(d, new_activations) ==
    IF new_activations = <<>> THEN d
    ELSE LET state == Head(new_activations)[1]
             value == Head(new_activations)[2]
             d1 == IF Has(d, state)
                   THEN Put(d, state, Min(Scale, Get(d, state, 0) + value))
                   ELSE IF value > CreationThreshold
                        THEN Put(d, state, BaseActivation)
                        ELSE d
         IN  ApplyInfluencesBase(d1, Tail(new_activations))

\* propagate_activation, the update loop: a present child is raised (capped
\* at 1.0), an absent one is created when its value exceeds 0.2
RECURSIVE ApplyInfluences(_, _)
ApplyInfluences(d, new_activations) ==
    IF new_activations = <<>> THEN d
    ELSE LET state == Head(new_activations)[1]
             value == Head(new_activations)[2]
             d1 == IF Has(d, state)
                   THEN Put(d, state, Min(Scale, Get(d, state, 0) + value))
                   ELSE IF value > CreationThreshold
                        THEN Put(d, state, value)
                        ELSE d
         IN  ApplyInfluences(d1, Tail(new_activations))

\* the accumulated influences of one iteration
new_activations_of(tree, d) == CollectInfluences(tree, d, <<>>)

\* the influences of each state applied to the store as soon as that state
\* has been visited, the states after it reading the store so updated
RECURSIVE ApplyWhileVisiting(_, _, _)
ApplyWhileVisiting(tree, items, d) ==
    IF items = <<>> THEN d
    ELSE LET state_name == Head(items)[1]
             activation == Get(d, state_name, 0)
             d1 == IF activation < PropagationMinActivation THEN d
                   ELSE ApplyInfluences(d, InfluenceChildren(<<>>,
                                               find_children(tree, state_name),
                                               activation))
         IN  ApplyWhileVisiting(tree, Tail(items), d1)

\* one pass with no separate update loop
PropagateIterationInPlace(tree, d) == ApplyWhileVisiting(tree, d, d)

\* one pass of the loop "for iteration in range(iterations)"
PropagateIteration(tree, d) == ApplyInfluences(d, new_activations_of(tree, d))

\* one pass whatever the number of iterations asked for
propagate_activation_once(tree, d, iterations) ==
    IF iterations <= 0 THEN d ELSE PropagateIteration(tree, d)

RECURSIVE propagate_activation(_, _, _)
propagate_activation(tree, d, iterations) ==
    IF iterations <= 0 THEN d
    ELSE propagate_activation(tree, PropagateIteration(tree, d), iterations - 1)

\* self.urgency_weights.get(state, 0.5)
urgency_weight(state) ==
    IF state \in DOMAIN urgency_weights THEN urgency_weights[state]
    ELSE DefaultUrgency

\* calculate_pressure: min(sum of activation * urgency weight, 1.0)
RECURSIVE PressureSum(_)
PressureSum(d) ==
    IF d = <<>> THEN 0
    ELSE Mul(Head(d)[2], urgency_weight(Head(d)[1])) + PressureSum(Tail(d))

\* calculate_pressure without the final min
calculate_pressure_uncapped(d) == PressureSum(d)

calculate_pressure(d) == Min(PressureSum(d), Scale)

\* the attenuation with one factor for every entry
reduce_weights_uniform(d) ==
    SelectSeq([i \in 1..Len(d) |-> <<d[i][1], Mul(d[i][2], AmbientAttenuation)>>],
              LAMBDA p : ~(p[2] < Epsilon))

\* reduce_weights_after_response: trigger states * 0.4, the others * 0.7,
\* entries below 0.1 deleted
reduce_weights_after_response(d) ==
    SelectSeq([i \in 1..Len(d) |->
                  <<d[i][1],
                    IF d[i][1] \in trigger_nodes
                    THEN Mul(d[i][2], TriggerAttenuation)
                    ELSE Mul(d[i][2], AmbientAttenuation)>>],
              LAMBDA p : ~(p[2] < Epsilon))

\* archive_current_state: the entries above 0.3, appended when there is one;
\* the memory keeps its last 5 entries
significant_states(d) == SelectSeq(d, LAMBDA p : p[2] > SignificanceThreshold)

\* the entry built from the store as the attenuation leaves it
memory_entry_attenuated(d, target, history) ==
    [states |-> significant_states(reduce_weights_after_response(d)),
     empathy_target |-> target,
     timestamp |-> Len(history)]

memory_entry(d, target, history) ==
    [states |-> significant_states(d),
     empathy_target |-> target,
     timestamp |-> Len(history)]

\* archive_current_state dropping the newest entry instead of the oldest
archive_current_state_drop_newest(d, memory, target, history) ==
    IF significant_states(d) = <<>> THEN memory
    ELSE LET appended == Append(memory, memory_entry(d, target, history))
         IN  IF Len(appended) > MemoryLimit
             THEN SubSeq(appended, 1, Len(appended) - 1)
             ELSE appended

archive_current_state(d, memory, target, history) ==
    IF significant_states(d) = <<>> THEN memory
    ELSE LET appended == Append(memory, memory_entry(d, target, history))
         IN  IF Len(appended) > MemoryLimit THEN Tail(appended) ELSE appended

\* the log of the entries given to short_term_memory.append
archive_log(d, log, target, history) ==
    IF significant_states(d) = <<>> THEN log
    ELSE Append(log, memory_entry(d, target, history))

\* f"{n:04d}": the decimal digits of n, padded with zeros to four
RECURSIVE Digits(_)
Digits(n) == IF n < 10 THEN <<n>> ELSE Append(Digits(n \div 10), n % 10)

Format04d(n) ==
    LET ds == Digits(n)
    IN  IF Len(ds) >= 4 THEN ds ELSE [i \in 1..(4 - Len(ds)) |-> 0] \o ds

\* f"concept_{n:04d}": the prefix and the four digits
concept_id(n) == [type |-> "string", s |-> "concept_", digits |-> Format04d(n)]

\* concept["id"] = f"concept_{len(self.world_model['concepts']):04d}";
\* concept["source"] = "dialogue": the dict the collaborator returned, with
\* the two keys set.  created_at, the time of the clock, is left out.
stamped(concept, n) ==
    JDict(Put(Put(concept.items, "id", concept_id(n)), "source", JStr("dialogue")))

\* the loop of update_world_model over the items of a list: each item gets
\* its id from the size of the store when it is appended.  An item that is
\* not a dict cannot be assigned a key: TypeError, the loop ends there with
\* the items before it appended.  The result is [raised, concepts].
RECURSIVE AppendConcepts(_, _)
AppendConcepts(concepts, new_concepts) ==
    IF new_concepts = <<>> THEN [raised |-> FALSE, concepts |-> concepts]
    ELSE IF Head(new_concepts).type # "dict" THEN [raised |-> TRUE, concepts |-> concepts]
    ELSE AppendConcepts(Append(concepts, stamped(Head(new_concepts), Len(concepts))),
                        Tail(new_concepts))

\* update_world_model after its call to the collaborator, result being what
\* bam_api_call returned.  new_concepts = result.get("concepts", []); the
\* loop; if new_concepts: save_world_model(), which writes the whole store.
\* All of it is inside try / except Exception, so an exception of the loop
\* skips the save and is logged.  None, a number and a boolean cannot be
\* iterated; a string gives its characters and a dict its keys, the first of
\* which raises in the assignment.  The result is [raised, concepts, file].
update_world_model(concepts, file, result) ==
    LET new_concepts == Get(result, "concepts", JList(<<>>))
        looped == IF new_concepts.type = "list"
                  THEN AppendConcepts(concepts, new_concepts.items)
                  ELSE IF new_concepts.type = "string"
                  THEN [raised |-> new_concepts.s # "", concepts |-> concepts]
                  ELSE IF new_concepts.type = "dict"
                  THEN [raised |-> new_concepts.items # <<>>, concepts |-> concepts]
                  ELSE [raised |-> TRUE, concepts |-> concepts]
        saved == ~looped.raised /\ new_concepts.type = "list" /\ new_concepts.items # <<>>
    IN  [raised |-> looped.raised,
         concepts |-> looped.concepts,
         file |-> IF saved THEN looped.concepts ELSE file]

\* the store after the decision with the attenuation outside the branch
store_after_decision_attenuated(responding, propagated) ==
    reduce_weights_after_response(propagated)

\* process_message after the decision: reduce_weights_after_response is
\* called in the responding branch only
store_after_decision(responding, propagated) ==
    IF responding THEN reduce_weights_after_response(propagated) ELSE propagated

\* if states_to_increase: for state in states_to_increase
IterateIfAny(v) ==
    IF Truthy(v) THEN Iterate(v) ELSE [raised |-> FALSE, names |-> <<>>]

\* update_activation as process_message calls it, with what the collaborator
\* returned for the two lists.  A value that cannot be iterated raises
\* before its loop starts, an item that cannot be hashed raises at its
\* lookup, after the items before it have been applied; the second loop is
\* entered only for a value that counts as true; the decay loop is reached
\* only when neither loop raised.  The result is [raised, store].
update_activation_json(tree, d, states_to_activate, states_to_increase) ==
    LET a == Iterate(states_to_activate)
        d1 == ActivateLoop(tree, d, a.names)
        b == IterateIfAny(states_to_increase)
        d2 == IncreaseLoop(d1, b.names)
    IN  IF a.raised THEN [raised |-> TRUE, store |-> d1]
        ELSE IF b.raised THEN [raised |-> TRUE, store |-> d2]
        ELSE [raised |-> FALSE, store |-> DecayLoop(d2)]

\* process_message of ai_mind2.py, from its call to its return.  The four
\* collaborator calls are awaited one after the other and nothing else runs
\* on the event loop, so the turn is one step.  Its inputs are what
\* bam_api_call returned to each of them, <<>> being the {} of a failed call:
\* the analysis of the interlocutor, the empathy lists, the decision, the
\* generated response and the concepts extracted from the dialogue.  An
\* exception of update_activation leaves process_message at that point.  The
\* log buffer of log_state is left out.
ProcessMessage(user_input, user_analysis, empathy_response, response_decision, generated, extracted) ==
    LET user_states == Get(user_analysis, "states", JList(<<>>))
        states_to_activate == Get(empathy_response, "activate", JList(<<>>))
        states_to_increase == Get(empathy_response, "increase_weight", JList(<<>>))
        updated == update_activation_json(states_tree, active_nodes,
                                          states_to_activate, states_to_increase)
        propagated == propagate_activation(states_tree, updated.store, Iterations)
        should_respond == Get(response_decision, "respond", JBool(FALSE))
        response_themes == Get(response_decision, "themes", JList(<<>>))
        responding == Truthy(should_respond) /\ Truthy(response_themes)
        history == Append(conversation_history, <<"user", user_input>>)
        response == Get(generated, "response", JStr("Ya ponimayu tebya..."))
        learned == update_world_model(world_model, world_model_file, extracted)
    IN  /\ empathy_target' = user_states
        /\ IF updated.raised
           THEN /\ active_nodes' = updated.store
                /\ returned' = Raised
                /\ UNCHANGED <<pressure, conversation_history, short_term_memory,
                               archived, world_model, world_model_file>>
           ELSE /\ pressure' = calculate_pressure(propagated)
                /\ IF responding
                   THEN /\ short_term_memory' =
                              archive_current_state(propagated, short_term_memory,
                                                    user_states, history)
                        /\ archived' = archive_log(propagated, archived,
                                                   user_states, history)
                        /\ conversation_history' = Append(history, <<"bot", response>>)
                        /\ active_nodes' = store_after_decision(TRUE, propagated)
                        /\ world_model' = learned.concepts
                        /\ world_model_file' = learned.file
                        /\ returned' = response
                   ELSE /\ conversation_history' = history
                        /\ active_nodes' = store_after_decision(FALSE, propagated)
                        /\ returned' = JNull
                        /\ UNCHANGED <<short_term_memory, archived, world_model,
                                       world_model_file>>
        /\ call' = [name |-> "process_message",
                    states_to_activate |-> Iterate(states_to_activate).names,
                    states_to_increase |-> IterateIfAny(states_to_increase).names,
                    empathy_response |-> empathy_response,
                    response_decision |-> response_decision,
                    raised |-> updated.raised,
                    responding |-> (~updated.raised /\ responding)]
        /\ before' = active_nodes
        /\ nCalls' = nCalls + 1
        /\ UNCHANGED <<states_tree, v3Vars>>

---------------------------------------------------------------------------
(* EmotionalMind of ai_mind1.py: the first engine.  Its update_activation   *)
(* takes a deactivate list, checks no name against the graph and decays by  *)
(* 0.95; its turn has no propagation, and after a response it lowers        *)
(* Utochnenie and Vyvod in place.                                           *)

\* self.active_nodes[state] *= 0.3
DeactivateFactor == 300

\* self.active_nodes[state] *= 0.95
DecayFactorV1 == 950

\* for trigger in ['Utochnenie', 'Vyvod']
catharsis_triggers == <<"Utochnenie", "Vyvod">>

RECURSIVE DeactivateLoop(_, _)
DeactivateLoop(d, states_to_deactivate) ==
    IF states_to_deactivate = <<>> THEN d
    ELSE LET state == Head(states_to_deactivate)
             d1 == IF Has(d, state)
                   THEN Put(d, state, Mul(Get(d, state, 0), DeactivateFactor))
                   ELSE d
         IN  DeactivateLoop(d1, Tail(states_to_deactivate))

RECURSIVE ActivateLoopV1(_, _)
ActivateLoopV1(d, states_to_activate) ==
    IF states_to_activate = <<>> THEN d
    ELSE LET state == Head(states_to_activate)
             d1 == IF Has(d, state)
                   THEN Put(d, state, Min(Scale, Get(d, state, 0) + ActivateBump))
                   ELSE Put(d, state, BaseActivation)
         IN  ActivateLoopV1(d1, Tail(states_to_activate))

update_activation_v1(d, states_to_activate, states_to_deactivate) ==
    DecayStep(ActivateLoopV1(DeactivateLoop(d, states_to_deactivate), states_to_activate),
              DecayFactorV1)

\* the catharsis of process_message: the entry is multiplied by 0.4 and
\* stays in the store whatever its value
RECURSIVE Catharsis(_, _)
Catharsis(d, triggers) ==
    IF triggers = <<>> THEN d
    ELSE LET trigger == Head(triggers)
             d1 == IF Has(d, trigger)
                   THEN Put(d, trigger, Mul(Get(d, trigger, 0), TriggerAttenuation))
                   ELSE d
         IN  Catharsis(d1, Tail(triggers))

ProcessMessageV1(user_input, user_states, states_to_activate, states_to_deactivate, responding, response) ==
    LET updated == update_activation_v1(active_nodes, states_to_activate,
                                        states_to_deactivate)
        history == Append(conversation_history, <<"user", user_input>>)
    IN  /\ empathy_target' = Names(user_states)
        /\ IF responding
           THEN /\ short_term_memory' =
                      archive_current_state(updated, short_term_memory,
                                            Names(user_states), history)
                /\ archived' = archive_log(updated, archived, Names(user_states), history)
                /\ conversation_history' = Append(history, <<"bot", JStr(response)>>)
                /\ active_nodes' = Catharsis(updated, catharsis_triggers)
                /\ returned' = JStr(response)
           ELSE /\ conversation_history' = history
                /\ active_nodes' = updated
                /\ returned' = JNull
                /\ UNCHANGED <<short_term_memory, archived>>
        /\ call' = [name |-> "process_message",
                    states_to_activate |-> states_to_activate,
                    states_to_deactivate |-> states_to_deactivate,
                    responding |-> responding]
        /\ before' = active_nodes
        /\ nCalls' = nCalls + 1
        /\ UNCHANGED <<states_tree, pressure, world_model, world_model_file, v3Vars>>

---------------------------------------------------------------------------
(* EmotionalMindV3 (ai_mind3.py): the operations on state_weights.         *)

\* self.spontaneous_threshold
SpontaneousThreshold == 1000

\* increase_state_weight(state, 0.2) of process_message
DetectedAmount == 200

\* increase_state_weight(state, 0.15), decrease_state_weight(state, 0.15)
\* of delayed_analysis
AdjustAmount == 150

\* decrease_state_weight(state, 0.4) of generate_spontaneous_response
SpontaneousAttenuation == 400

\* amount * 0.5 for every ancestor
AncestorFactor == 500

\* get_top_states(3) and its filter weight > 0.1
TopN == 3

TopMinWeight == 100

\* states_dict[state_name]: the definition of the state, the last one when
\* the graph defines the name twice
states_dict(tree, state_name) ==
    LET hit == SelectSeq([i \in 1..Len(tree) |-> i],
                         LAMBDA i : tree[i].nazvanie = state_name)
    IN  tree[hit[Len(hit)]]

\* __init__: state_weights = {name: ves} in the order of the graph
RECURSIVE InitialWeights(_, _)
InitialWeights(tree, d) ==
    IF tree = <<>> THEN d
    ELSE InitialWeights(Tail(tree), Put(d, Head(tree).nazvanie, Head(tree).ves))

\* _get_parent_states.  The function calls itself for every defined
\* condition and keeps no record of the states it has visited; a call nested
\* deeper than the interpreter allows raises RecursionError.  The result is
\* [raised, parents].
RECURSIVE get_parent_states_at(_, _, _)
RECURSIVE ParentsOfConditions(_, _, _, _)
ParentsOfConditions(tree, conditions, parents, depth) ==
    IF conditions = <<>> THEN [raised |-> FALSE, parents |-> parents]
    ELSE LET condition == Head(conditions)
         IN  IF condition \in nodes_map(tree)
             THEN LET inner == get_parent_states_at(tree, condition, depth + 1)
                  IN  IF inner.raised
                      THEN [raised |-> TRUE, parents |-> {}]
                      ELSE ParentsOfConditions(tree, Tail(conditions),
                               parents \cup {condition} \cup inner.parents, depth)
             ELSE ParentsOfConditions(tree, Tail(conditions), parents, depth)

get_parent_states_at(tree, state_name, depth) ==
    IF depth > RecursionLimit THEN [raised |-> TRUE, parents |-> {}]
    ELSE IF state_name \notin nodes_map(tree) THEN [raised |-> FALSE, parents |-> {}]
    ELSE ParentsOfConditions(tree, states_dict(tree, state_name).usloviya, {}, depth)

\* the defined conditions of the state only, their own parents left out
get_parent_states_direct(tree, state_name) ==
    [raised |-> FALSE,
     parents |-> IF state_name \in nodes_map(tree)
                 THEN Range(states_dict(tree, state_name).usloviya) \cap nodes_map(tree)
                 ELSE {}]

get_parent_states(tree, state_name) == get_parent_states_at(tree, state_name, 1)

\* increase_state_weight: the state is raised by amount, then every ancestor
\* by amount * 0.5, each capped at 1.0.  When _get_parent_states raises, the
\* state has already been raised.  The result is [raised, weights].
increase_state_weight(tree, weights, state_name, amount) ==
    IF ~Has(weights, state_name) THEN [raised |-> FALSE, weights |-> weights]
    ELSE LET w1 == Put(weights, state_name,
                       Min(Scale, Get(weights, state_name, 0) + amount))
             parent_states == get_parent_states(tree, state_name)
         IN  IF parent_states.raised THEN [raised |-> TRUE, weights |-> w1]
             ELSE [raised |-> FALSE,
                   weights |->
                     [i \in 1..Len(w1) |->
                        IF w1[i][1] \in parent_states.parents
                        THEN <<w1[i][1],
                               Min(Scale, w1[i][2] + Mul(amount, AncestorFactor))>>
                        ELSE w1[i]]]

\* decrease_state_weight lowering by half the amount
decrease_state_weight_halved(weights, state_name, amount) ==
    IF ~Has(weights, state_name) THEN weights
    ELSE Put(weights, state_name, Max(0, Get(weights, state_name, 0) - amount \div 2))

\* decrease_state_weight: the state is lowered by amount, not below 0.0
decrease_state_weight(weights, state_name, amount) ==
    IF ~Has(weights, state_name) THEN weights
    ELSE Put(weights, state_name, Max(0, Get(weights, state_name, 0) - amount))

\* sorted(items, key = weight, reverse = True): stable, so equal weights
\* keep the order of the dict
RECURSIVE SortedByWeight(_, _)
SortedByWeight(items, sorted) ==
    IF items = <<>> THEN sorted
    ELSE LET item == Head(items)
             ahead == SelectSeq(sorted, LAMBDA p : p[2] >= item[2])
             behind == SelectSeq(sorted, LAMBDA p : p[2] < item[2])
         IN  SortedByWeight(Tail(items), ahead \o <<item>> \o behind)

\* get_top_states: the n heaviest items, those above 0.1 only
get_top_states(weights, n) ==
    LET sorted_states == SortedByWeight(weights, <<>>)
    IN  SelectSeq(SubSeq(sorted_states, 1, Min(n, Len(sorted_states))),
                  LAMBDA p : p[2] > TopMinWeight)

\* get_triggered_states with the comparison weight > threshold
get_triggered_states_strict(weights) ==
    LET hit == SelectSeq(weights, LAMBDA p : p[2] > SpontaneousThreshold)
    IN  [i \in 1..Len(hit) |-> hit[i][1]]

\* get_triggered_states: the names whose weight is >= spontaneous_threshold
get_triggered_states(weights) ==
    LET hit == SelectSeq(weights, LAMBDA p : p[2] >= SpontaneousThreshold)
    IN  [i \in 1..Len(hit) |-> hit[i][1]]

\* for state in states: increase_state_weight(state, amount); the loop ends
\* at the first call that raises
RECURSIVE IncreaseAll(_, _, _, _)
IncreaseAll(tree, weights, states, amount) ==
    IF states = <<>> THEN [raised |-> FALSE, weights |-> weights]
    ELSE LET r == increase_state_weight(tree, weights, Head(states), amount)
         IN  IF r.raised THEN r
             ELSE IncreaseAll(tree, r.weights, Tail(states), amount)

\* for state in states: decrease_state_weight(state, amount)
RECURSIVE DecreaseAll(_, _, _)
DecreaseAll(weights, states, amount) ==
    IF states = <<>> THEN weights
    ELSE DecreaseAll(decrease_state_weight(weights, Head(states), amount),
                     Tail(states), amount)

---------------------------------------------------------------------------
(* Inputs.                                                                 *)

\* a name no graph defines
UnknownState == "Neizvestnoe"

\* the lists over S of at most n items, repetitions included
RECURSIVE ListsUpTo(_, _)
ListsUpTo(S, n) ==
    IF n = 0 THEN {<<>>}
    ELSE LET shorter == ListsUpTo(S, n - 1)
         IN  shorter \cup {Append(l, x) : l \in shorter, x \in S}

\* the names the collaborator draws from: two states of both graphs, one of
\* them a trigger state, and an unknown one
ClassifierNames == {"Trevoga", "Gnev", UnknownState}

ActivateLists == ListsUpTo(ClassifierNames, MaxList)

IncreaseLists == ListsUpTo({"Gnev", UnknownState}, 1)

Graphs == {test_tree, diamond_tree}

NoCall == [name |-> "__init__"]

\* EmotionalMind.__init__: the state of a constructed engine
InitEngine ==
    /\ active_nodes = <<>>
    /\ short_term_memory = <<>>
    /\ empathy_target = JNull
    /\ conversation_history = <<>>
    /\ archived = <<>>
    /\ pressure = 0
    /\ world_model = <<>>
    /\ world_model_file = <<>>
    /\ returned = JNull

\* no call made yet
InitCalls ==
    /\ call = NoCall
    /\ before = <<>>
    /\ nCalls = 0

\* no EmotionalMindV3 constructed, no event loop running
NoSession ==
    /\ state_weights = <<>>
    /\ memory_file = <<>>
    /\ mainPc = "none"
    /\ tasks = <<>>

---------------------------------------------------------------------------
(* Spec: the store driven call by call.  Any sequence of update_activation, *)
(* propagate_activation and reduce_weights_after_response, with any lists   *)
(* of names, on a constructed engine.                                       *)

Init ==
    /\ states_tree \in Graphs
    /\ InitEngine
    /\ InitCalls
    /\ NoSession

UpdateActivation ==
    \E states_to_activate \in ActivateLists,
       states_to_increase \in IncreaseLists :
        /\ nCalls < MaxCalls
        /\ active_nodes' = update_activation(states_tree, active_nodes,
                                             states_to_activate, states_to_increase)
        /\ call' = [name |-> "update_activation",
                    states_to_activate |-> states_to_activate,
                    states_to_increase |-> states_to_increase]
        /\ before' = active_nodes
        /\ nCalls' = nCalls + 1
        /\ UNCHANGED <<states_tree, memoryVars, pressure, turnVars, v3Vars>>

PropagateActivation ==
    \E iterations \in 1..Iterations :
        /\ nCalls < MaxCalls
        /\ active_nodes' = propagate_activation(states_tree, active_nodes, iterations)
        /\ call' = [name |-> "propagate_activation", iterations |-> iterations]
        /\ before' = active_nodes
        /\ nCalls' = nCalls + 1
        /\ UNCHANGED <<states_tree, memoryVars, pressure, turnVars, v3Vars>>

ReduceWeightsAfterResponse ==
    /\ nCalls < MaxCalls
    /\ active_nodes' = reduce_weights_after_response(active_nodes)
    /\ call' = [name |-> "reduce_weights_after_response"]
    /\ before' = active_nodes
    /\ nCalls' = nCalls + 1
    /\ UNCHANGED <<states_tree, memoryVars, pressure, turnVars, v3Vars>>

Next ==
    \/ UpdateActivation
    \/ PropagateActivation
    \/ ReduceWeightsAfterResponse

Spec == Init /\ [][Next]_vars

---------------------------------------------------------------------------
(* SpecScenario: the experiments' harness.  test_scenario sets the store    *)
(* directly and then calls propagate_activation or calculate_pressure.      *)

ScenarioLevels == {50, 300, 400, 600, 800}

\* the stores over the first n states of the graph, in the order of the graph
RECURSIVE StoresOver(_, _)
StoresOver(tree, n) ==
    IF n = 0 THEN {<<>>}
    ELSE LET shorter == StoresOver(tree, n - 1)
         IN  shorter \cup
             {Append(d, <<tree[n].nazvanie, v>>) : d \in shorter, v \in ScenarioLevels}

InitScenario ==
    /\ states_tree \in Graphs
    /\ active_nodes \in StoresOver(states_tree, Len(states_tree))
    /\ short_term_memory = <<>>
    /\ empathy_target = JNull
    /\ conversation_history = <<>>
    /\ archived = <<>>
    /\ pressure = 0
    /\ world_model = <<>>
    /\ world_model_file = <<>>
    /\ returned = JNull
    /\ InitCalls
    /\ NoSession

ScenarioPropagate ==
    \E iterations \in 1..Iterations :
        /\ nCalls < MaxScenarioCalls
        /\ active_nodes' = propagate_activation(states_tree, active_nodes, iterations)
        /\ call' = [name |-> "propagate_activation", iterations |-> iterations]
        /\ before' = active_nodes
        /\ nCalls' = nCalls + 1
        /\ UNCHANGED <<states_tree, memoryVars, pressure, turnVars, v3Vars>>

ScenarioPressure ==
    /\ nCalls < MaxScenarioCalls
    /\ pressure' = calculate_pressure(active_nodes)
    /\ call' = [name |-> "calculate_pressure"]
    /\ before' = active_nodes
    /\ nCalls' = nCalls + 1
    /\ UNCHANGED <<states_tree, active_nodes, memoryVars, turnVars, v3Vars>>

NextScenario ==
    \/ ScenarioPropagate
    \/ ScenarioPressure

SpecScenario == InitScenario /\ [][NextScenario]_vars

---------------------------------------------------------------------------
(* SpecWeights: WeightSystemTest of experiments/test_weight_system.py.  A   *)
(* scenario sets the store and asks should_respond with a threshold.        *)

MaxWeightTests == 2

\* WeightSystemTest.urgency_weights
test_urgency_weights ==
    ("Gnev" :> 900) @@ ("Utochnenie" :> 700) @@ ("Vyvod" :> 800) @@
    ("Priznanie" :> 700) @@ ("Somnenie" :> 300) @@ ("O gryozah" :> 100) @@
    ("Trevoga" :> 600)

\* the loop of WeightSystemTest.calculate_pressure:
\* pressure += activation * self.urgency_weights.get(state, 0.5)
RECURSIVE TestPressureSum(_)
TestPressureSum(d) ==
    IF d = <<>> THEN 0
    ELSE Mul(Head(d)[2], IF Head(d)[1] \in DOMAIN test_urgency_weights
                         THEN test_urgency_weights[Head(d)[1]] ELSE DefaultUrgency)
         + TestPressureSum(Tail(d))

\* WeightSystemTest.calculate_pressure
test_calculate_pressure(d) == Min(TestPressureSum(d), Scale)

\* should_respond with the comparison pressure > threshold
test_should_respond_strict(d, threshold) == test_calculate_pressure(d) > threshold

\* WeightSystemTest.should_respond: pressure >= threshold
test_should_respond(d, threshold) == test_calculate_pressure(d) >= threshold

\* threshold: float = 0.7
DefaultThreshold == 700

\* the stores of the scenarios: one state at a level, the two pairs
WeightStores ==
    { <<<<n, v>>>> : n \in DOMAIN test_urgency_weights \cup {UnknownState},
                     v \in {400, 500, 800, 900, 950, 1000} }
    \cup { <<<<"Utochnenie", 500>>, <<"Trevoga", 400>>>>,
           <<<<"Gnev", 1000>>, <<"Vyvod", 1000>>>> }

\* test_scenario(states, threshold)
TestScenario ==
    \E states \in WeightStores, threshold \in {DefaultThreshold, 590, 1000} :
        /\ nCalls < MaxWeightTests
        /\ active_nodes' = states
        /\ pressure' = test_calculate_pressure(states)
        /\ returned' = JBool(test_should_respond(states, threshold))
        /\ call' = [name |-> "should_respond", threshold |-> threshold]
        /\ before' = active_nodes
        /\ nCalls' = nCalls + 1
        /\ UNCHANGED <<states_tree, memoryVars, world_model, world_model_file, v3Vars>>

SpecWeights == Init /\ [][TestScenario]_vars

---------------------------------------------------------------------------
(* SpecTurns: a session of EmotionalMind (ai_mind2.py), turn after turn.    *)
(* The lists are short so that the session can be long.                     *)

TurnLists == {<<"Trevoga">>, <<"Gnev", UnknownState>>}

Turn ==
    \E states_to_activate \in TurnLists, should_respond \in BOOLEAN :
        /\ nCalls < MaxTurns
        /\ ProcessMessage("replika",
                          <<<<"states", Names(states_to_activate)>>>>,
                          <<<<"activate", Names(states_to_activate)>>>>,
                          <<<<"respond", JBool(should_respond)>>,
                            <<"themes", Names(<<"tema">>)>>>>,
                          <<<<"response", JStr("otvet")>>>>,
                          <<>>)

NextTurns == Turn

SpecTurns == Init /\ [][NextTurns]_vars

---------------------------------------------------------------------------
(* SpecDialogue: turns of EmotionalMind (ai_mind2.py) with whatever the     *)
(* collaborator may return: nothing (a failed call), well-formed payloads,  *)
(* payloads with fields missing, and fields of the wrong shape.             *)

EmpathyPayloads ==
    { <<>>,
      <<<<"activate", Names(<<"Trevoga">>)>>>>,
      <<<<"activate", Names(<<"Gnev">>)>>, <<"increase_weight", Names(<<"Gnev">>)>>>>,
      <<<<"activate", JNull>>>>,
      <<<<"activate", JList(<<JStr("Gnev"), JList(<<>>)>>)>>>>,
      <<<<"activate", Names(<<"Trevoga">>)>>, <<"increase_weight", JNum(1)>>>> }

DecisionPayloads ==
    { <<>>,
      <<<<"respond", JBool(TRUE)>>, <<"themes", Names(<<"tema">>)>>>>,
      <<<<"respond", JBool(TRUE)>>, <<"themes", JList(<<>>)>>>>,
      <<<<"respond", JBool(TRUE)>>>>,
      <<<<"respond", JBool(FALSE)>>, <<"themes", Names(<<"tema">>)>>>> }

\* what the other three calls of the turn return: all failed, all well
\* formed, or well formed with the states of the interlocutor null
OtherPayloads ==
    { [user_analysis |-> <<>>, generated |-> <<>>, extracted |-> <<>>],
      [user_analysis |-> <<<<"states", Names(<<"Trevoga">>)>>>>,
       generated |-> <<<<"response", JStr("otvet")>>>>,
       extracted |-> <<<<"concepts", JList(<<JDict(<<<<"name", JStr("koncept")>>>>)>>)>>>>],
      [user_analysis |-> <<<<"states", JNull>>>>,
       generated |-> <<<<"response", JStr("otvet")>>>>,
       extracted |-> <<>>] }

DialogueTurn ==
    \E empathy_response \in EmpathyPayloads, response_decision \in DecisionPayloads,
       others \in OtherPayloads :
        /\ nCalls < MaxDialogueTurns
        /\ ProcessMessage("replika", others.user_analysis, empathy_response,
                          response_decision, others.generated, others.extracted)

NextDialogue == DialogueTurn

SpecDialogue == Init /\ [][NextDialogue]_vars

----------------------------------------------------------------------------
(* SpecFadeFair: a session of EmotionalMind (ai_mind2.py) on an acyclic     *)
(* graph that falls quiet.  A few turns in which the collaborator names     *)
(* states, then turns in which it names none and no response is produced.   *)

MaxLoudTurns == 2

MaxQuietTurns == 110

\* the collaborator returned no states and no decision for the last turn
Quiet ==
    /\ call.name = "process_message"
    /\ call.empathy_response = <<>>
    /\ call.response_decision = <<>>

LoudTurn ==
    \E states_to_activate \in {<<"Trevoga">>, <<"Gnev">>, <<"Pustota", "Trevoga">>},
       should_respond \in BOOLEAN :
        /\ nCalls < MaxLoudTurns
        /\ ~Quiet
        /\ ProcessMessage("replika",
                          <<<<"states", Names(states_to_activate)>>>>,
                          <<<<"activate", Names(states_to_activate)>>>>,
                          <<<<"respond", JBool(should_respond)>>,
                            <<"themes", Names(<<"tema">>)>>>>,
                          <<<<"response", JStr("otvet")>>>>,
                          <<>>)

QuietTurn ==
    /\ nCalls < MaxLoudTurns + MaxQuietTurns
    /\ ProcessMessage("replika", <<>>, <<>>, <<>>, <<>>, <<>>)

\* a turn has been processed: every turn of the session counts itself, and
\* once a quiet turn has been processed only quiet turns follow
TurnProcessed ==
    /\ nCalls < MaxLoudTurns + MaxQuietTurns
    /\ nCalls' = nCalls + 1

\* the turns keep coming
SpecFadeFair == Init /\ [][LoudTurn \/ QuietTurn]_vars /\ WF_nCalls(TurnProcessed)

---------------------------------------------------------------------------
(* SpecKnowledge: update_world_model of EmotionalMind (ai_mind2.py), batch  *)
(* after batch, from the empty store of a first start, with whatever the    *)
(* collaborator may return for the concepts.                                *)

MaxBatches == 3

\* a concept as the collaborator returns it
Concept(name) == JDict(<<<<"name", JStr(name)>>>>)

\* a failed call, no concepts, one, two, one that brings an id of its own,
\* one followed by an item that is not an object, and null
ConceptPayloads ==
    { <<>>,
      <<<<"concepts", JList(<<>>)>>>>,
      <<<<"concepts", JList(<<Concept("vstrecha")>>)>>>>,
      <<<<"concepts", JList(<<Concept("vstrecha"), Concept("dom")>>)>>>>,
      <<<<"concepts", JList(<<JDict(<<<<"id", JStr("svoj")>>, <<"name", JStr("dom")>>>>)>>)>>>>,
      <<<<"concepts", JList(<<Concept("dom"), JStr("vstrecha")>>)>>>>,
      <<<<"concepts", JNull>>>> }

UpdateWorldModel ==
    \E result \in ConceptPayloads :
        /\ nCalls < MaxBatches
        /\ LET learned == update_world_model(world_model, world_model_file, result)
           IN  /\ world_model' = learned.concepts
               /\ world_model_file' = learned.file
               /\ call' = [name |-> "update_world_model", result |-> result,
                           raised |-> learned.raised]
        /\ before' = active_nodes
        /\ nCalls' = nCalls + 1
        /\ UNCHANGED <<states_tree, active_nodes, memoryVars, pressure, returned, v3Vars>>

SpecKnowledge == Init /\ [][UpdateWorldModel]_vars

---------------------------------------------------------------------------
(* SpecLoad: main of ai_mind2.py from its start.  The engine is constructed *)
(* from the parsed content of the graph file, then turns are processed.     *)

MaxLoadTurns == 1

\* parsed files: the graph under the current key, under the former key,
\* under another key; under the current key a value that is not a list
Sources ==
    { <<<<"sostoyaniya", JList(test_tree)>>>>,
      <<<<"tehnologii", JList(diamond_tree)>>>>,
      <<<<"sostoyaniya", JList(<<>>)>>>>,
      <<<<"uzly", JList(test_tree)>>>>,
      <<>>,
      <<<<"sostoyaniya", JNull>>>>,
      <<<<"sostoyaniya", JNum(1)>>>>,
      <<<<"sostoyaniya", JStr("")>>>>,
      <<<<"sostoyaniya", JStr("Gnev")>>>>,
      <<<<"sostoyaniya", JDict(<<>>)>>>>,
      <<<<"sostoyaniya", JDict(<<<<"Gnev", JNull>>>>)>>>> }

\* mind_data.get("sostoyaniya", mind_data.get("tehnologii", []))
states_value(mind_data) ==
    Get(mind_data, "sostoyaniya", Get(mind_data, "tehnologii", JList(<<>>)))

\* json.dumps(self.states_tree) accepts any parsed value; the comprehension
\* {node["nazvanie"]: node for node in self.states_tree} iterates it: null
\* and a number are not iterable, the characters of a string and the keys
\* of a dict cannot be indexed by a name (TypeError); the empty string and
\* the empty dict give no node at all
build_nodes_map(value) ==
    CASE value.type = "list"   -> [raised |-> FALSE, states_tree |-> value.items]
      [] value.type = "string" -> [raised |-> value.s # "", states_tree |-> <<>>]
      [] value.type = "dict"   -> [raised |-> value.items # <<>>, states_tree |-> <<>>]
      [] OTHER                 -> [raised |-> TRUE, states_tree |-> <<>>]

\* main has started, no engine yet
NotConstructed == [name |-> "main"]

InitLoad ==
    /\ states_tree = <<>>
    /\ InitEngine
    /\ call = NotConstructed
    /\ before = <<>>
    /\ nCalls = 0
    /\ NoSession

\* mind = EmotionalMind("mind1.json"); an exception leaves main
Load ==
    \E mind_json \in Sources :
        /\ call = NotConstructed
        /\ LET r == build_nodes_map(states_value(mind_json))
           IN  /\ states_tree' = r.states_tree
               /\ call' = [name |-> "__init__", mind_json |-> mind_json, raised |-> r.raised]
        /\ UNCHANGED <<active_nodes, before, nCalls, memoryVars, pressure, turnVars, v3Vars>>

Constructed ==
    \/ call.name = "process_message"
    \/ call.name = "__init__" /\ ~call.raised

LoadedTurn ==
    /\ Constructed
    /\ nCalls < MaxLoadTurns
    /\ DialogueTurn

NextLoad ==
    \/ Load
    \/ LoadedTurn

SpecLoad == InitLoad /\ [][NextLoad]_vars

---------------------------------------------------------------------------
(* SpecV1: the turns of ai_mind1.py.                                        *)

MaxV1Turns == 3

V1ActivateLists == {<<>>, <<"Utochnenie">>, <<"Trevoga">>, <<"Utochnenie", "Trevoga">>}

V1DeactivateLists == {<<>>, <<"Utochnenie">>, <<"Trevoga">>}

InitV1 ==
    /\ states_tree = test_tree
    /\ InitEngine
    /\ InitCalls
    /\ NoSession

TurnV1 ==
    \E states_to_activate \in V1ActivateLists,
       states_to_deactivate \in V1DeactivateLists, responding \in BOOLEAN :
        /\ nCalls < MaxV1Turns
        /\ ProcessMessageV1("replika", <<"Trevoga">>, states_to_activate,
                            states_to_deactivate, responding, "otvet")

NextV1 == TurnV1

SpecV1 == InitV1 /\ [][NextV1]_vars

---------------------------------------------------------------------------
(* SpecStores: both engines constructed over the same graph, their stores   *)
(* driven call by call.  The graph may contain cycles.                      *)

StoreGraphs == {diamond_tree, weighted_tree, cyclic_tree}

StoreLists == {<<"Trevoga">>, <<UnknownState>>, <<"Gnev", UnknownState>>}

InitStores ==
    /\ states_tree \in StoreGraphs
    /\ InitEngine
    /\ InitCalls
    /\ state_weights = InitialWeights(states_tree, <<>>)
    /\ memory_file = <<>>
    /\ mainPc = "none"
    /\ tasks = <<>>

StoreUpdate ==
    \E states_to_activate \in StoreLists, states_to_increase \in StoreLists :
        /\ nCalls < MaxWeightCalls
        /\ active_nodes' = update_activation(states_tree, active_nodes,
                                             states_to_activate, states_to_increase)
        /\ call' = [name |-> "update_activation",
                    states_to_activate |-> states_to_activate,
                    states_to_increase |-> states_to_increase]
        /\ before' = active_nodes
        /\ nCalls' = nCalls + 1
        /\ UNCHANGED <<states_tree, memoryVars, pressure, turnVars, v3Vars>>

StorePropagate ==
    /\ nCalls < MaxWeightCalls
    /\ active_nodes' = propagate_activation(states_tree, active_nodes, Iterations)
    /\ call' = [name |-> "propagate_activation", iterations |-> Iterations]
    /\ before' = active_nodes
    /\ nCalls' = nCalls + 1
    /\ UNCHANGED <<states_tree, memoryVars, pressure, turnVars, v3Vars>>

GetParentStates ==
    \E state_name \in nodes_map(states_tree) \cup {UnknownState} :
        /\ nCalls < MaxWeightCalls
        /\ LET r == get_parent_states(states_tree, state_name)
           IN  call' = [name |-> "_get_parent_states", state_name |-> state_name,
                        raised |-> r.raised, parents |-> r.parents]
        /\ before' = state_weights
        /\ nCalls' = nCalls + 1
        /\ UNCHANGED <<states_tree, active_nodes, memoryVars, pressure, turnVars, v3Vars>>

IncreaseStateWeight ==
    \E state_name \in nodes_map(states_tree) \cup {UnknownState},
       amount \in {DetectedAmount, AdjustAmount} :
        /\ nCalls < MaxWeightCalls
        /\ LET r == increase_state_weight(states_tree, state_weights, state_name, amount)
           IN  /\ state_weights' = r.weights
               /\ call' = [name |-> "increase_state_weight", state_name |-> state_name,
                           amount |-> amount, raised |-> r.raised]
        /\ before' = state_weights
        /\ nCalls' = nCalls + 1
        /\ UNCHANGED <<states_tree, active_nodes, memoryVars, pressure, turnVars,
                       memory_file, mainPc, tasks>>

DecreaseStateWeight ==
    \E state_name \in nodes_map(states_tree) \cup {UnknownState},
       amount \in {AdjustAmount, SpontaneousAttenuation} :
        /\ nCalls < MaxWeightCalls
        /\ state_weights' = decrease_state_weight(state_weights, state_name, amount)
        /\ call' = [name |-> "decrease_state_weight", state_name |-> state_name,
                    amount |-> amount, raised |-> FALSE]
        /\ before' = state_weights
        /\ nCalls' = nCalls + 1
        /\ UNCHANGED <<states_tree, active_nodes, memoryVars, pressure, turnVars,
                       memory_file, mainPc, tasks>>

NextStores ==
    \/ StoreUpdate
    \/ StorePropagate
    \/ GetParentStates
    \/ IncreaseStateWeight
    \/ DecreaseStateWeight

SpecStores == InitStores /\ [][NextStores]_vars

---------------------------------------------------------------------------
(* SpecSession: main of ai_mind3.py on its event loop.  One coroutine runs  *)
(* at a time and gives way only where it awaits: main at input(), a turn at *)
(* its two collaborator calls, a delayed_analysis task at its sleep and at  *)
(* its collaborator calls.  Each action is the code between two awaits.     *)
(* Cancellation is that of Python 3.8 and later, where CancelledError is    *)
(* not an Exception and so passes through bam_api_call.                     *)

SessionGraphs == {weighted_tree, diamond_tree, cyclic_tree}

\* what analyze_user_states may return; <<>> is also the result of a failed
\* collaborator call
DetectedLists == {<<>>, <<"Trevoga">>, <<"Gnev", UnknownState>>}

\* what the collaborator may return to delayed_analysis
Adjustments ==
    { [increase |-> <<>>, decrease |-> <<>>],
      [increase |-> <<"Trevoga">>, decrease |-> <<"Gnev">>],
      [increase |-> <<UnknownState>>, decrease |-> <<"Trevoga">>] }

\* result.get("response", ...) and response_data.get("text", ...): the
\* texts are carried, never examined
Responses == {"otvet"}

SpontaneousTexts == {"spontanno"}

Pending == {"sleep", "adjust_call", "spont_call"}

InitSession ==
    /\ states_tree \in SessionGraphs
    /\ InitEngine
    /\ InitCalls
    /\ state_weights = InitialWeights(states_tree, <<>>)
    /\ memory_file = <<>>
    /\ mainPc = "input"
    /\ tasks = <<>>

\* main handing the message to a process_message it does not await: the
\* next message is taken while the turn is in flight
ReadMessageUnawaited ==
    /\ mainPc \in {"input", "analyze", "generate"}
    /\ nCalls < MaxSessionTurns
    /\ mainPc' = "analyze"
    /\ conversation_history' =
           Append(conversation_history, [role |-> "polzovatel", content |-> "replika"])
    /\ call' = [name |-> "process_message", step |-> "history"]
    /\ nCalls' = nCalls + 1
    /\ UNCHANGED <<states_tree, before, active_nodes, short_term_memory, empathy_target,
                   archived, pressure, turnVars, state_weights, memory_file, tasks>>

\* main: input() returned a message; process_message appends it to the
\* history and awaits analyze_user_states
ReadMessage ==
    /\ mainPc = "input"
    /\ nCalls < MaxSessionTurns
    /\ mainPc' = "analyze"
    /\ conversation_history' =
           Append(conversation_history, [role |-> "polzovatel", content |-> "replika"])
    /\ call' = [name |-> "process_message", step |-> "history"]
    /\ nCalls' = nCalls + 1
    /\ UNCHANGED <<states_tree, before, active_nodes, short_term_memory, empathy_target,
                   archived, pressure, turnVars, state_weights, memory_file, tasks>>

\* asyncio.run when main has returned or was interrupted: every task that has
\* not finished is cancelled.  CancelledError is raised at the await where
\* the task waits (the sleep, or the collaborator call inside the try of
\* bam_api_call, whose `except Exception` does not catch it) and ends the
\* task; the results are gathered with return_exceptions=True.
cancel_sleeping_tasks(ts) ==
    [i \in 1..Len(ts) |->
        IF ts[i].pc = "sleep" THEN [ts[i] EXCEPT !.pc = "cancelled"] ELSE ts[i]]

cancel_all_tasks(ts) ==
    [i \in 1..Len(ts) |->
        IF ts[i].pc \in Pending THEN [ts[i] EXCEPT !.pc = "cancelled"] ELSE ts[i]]

\* main: input() returned "0"; main leaves its loop and returns
Exit ==
    /\ mainPc = "input"
    /\ mainPc' = "exited"
    /\ tasks' = cancel_all_tasks(tasks)
    /\ call' = [name |-> "main", step |-> "exit"]
    /\ UNCHANGED <<states_tree, before, active_nodes, memoryVars, pressure, turnVars,
                   state_weights, memory_file, nCalls>>

\* main: the user interrupts (Ctrl-C) while main waits for the input or for
\* a collaborator call of process_message; main ends where it waits
Interrupt ==
    /\ mainPc \in {"input", "analyze", "generate"}
    /\ mainPc' = "exited"
    /\ tasks' = cancel_all_tasks(tasks)
    /\ call' = [name |-> "main", step |-> "interrupt"]
    /\ UNCHANGED <<states_tree, before, active_nodes, memoryVars, pressure, turnVars,
                   state_weights, memory_file, nCalls>>

\* process_message from the result of analyze_user_states to the await in
\* generate_response: the detected states are raised, the top 3 are read.
\* An exception of increase_state_weight leaves process_message and is
\* caught by the loop of main, which asks for the next message.
RaiseDetectedWith(detected_states) ==
        /\ mainPc = "analyze"
        /\ LET known == SelectSeq(detected_states, LAMBDA x : Has(state_weights, x))
               r == IncreaseAll(states_tree, state_weights, known, DetectedAmount)
           IN  /\ state_weights' = r.weights
               /\ mainPc' = IF r.raised THEN "input" ELSE "generate"
               /\ returned' = IF r.raised THEN Raised ELSE returned
               /\ call' = [name |-> "process_message", step |-> "increase"]
            /\ UNCHANGED <<states_tree, before, active_nodes, memoryVars, pressure, world_model,
                       world_model_file, memory_file, tasks, nCalls>>

RaiseDetected ==
    \E detected_states \in DetectedLists : RaiseDetectedWith(detected_states)

\* asyncio.create_task(self.delayed_analysis(...)): the task is scheduled
\* and starts at its sleep; the caller goes on without awaiting it
run_delayed_analysis_inline(ts) ==
    Append(ts, [pc |-> "adjust_call", triggered_states |-> <<>>])

create_task(ts) ==
    Append(ts, [pc |-> "sleep", triggered_states |-> <<>>])

\* process_message from the result of generate_response to its return: the
\* response is appended to the history and saved with the top 3 to the
\* memory file, the delayed task is created.  A failure of the write leaves
\* process_message before the task is created.
RespondWith(bot_response, written) ==
        /\ mainPc = "generate"
        /\ mainPc' = "input"
        /\ conversation_history' =
               Append(conversation_history, [role |-> "bot", content |-> bot_response])
        /\ IF written
           THEN /\ memory_file' = Append(memory_file,
                        [user_input |-> "replika", bot_response |-> bot_response,
                         top_states |-> get_top_states(state_weights, TopN)])
                /\ tasks' = create_task(tasks)
                /\ returned' = JStr(bot_response)
           ELSE /\ UNCHANGED <<memory_file, tasks>>
                /\ returned' = Raised
        /\ call' = [name |-> "process_message", step |-> "respond"]
            /\ UNCHANGED <<states_tree, before, active_nodes, short_term_memory, empathy_target,
                       archived, pressure, world_model, world_model_file,
                       state_weights, nCalls>>

Respond ==
    \E bot_response \in Responses, written \in BOOLEAN : RespondWith(bot_response, written)

\* delayed_analysis from the end of its sleep to its collaborator call: the
\* memory file and the top 3 are read into the prompt
Reanalyze(i) ==
    /\ tasks[i].pc = "sleep"
    /\ tasks' = [tasks EXCEPT ![i].pc = "adjust_call"]
    /\ call' = [name |-> "delayed_analysis", step |-> "prompt"]
    /\ UNCHANGED <<states_tree, before, active_nodes, memoryVars, pressure, turnVars,
                   state_weights, memory_file, mainPc, nCalls>>

\* delayed_analysis from the result of its collaborator call on: the
\* adjustments are applied, the triggers are checked and, when there are
\* some, generate_spontaneous_response runs up to its collaborator call
AdjustWith(i, result) ==
        /\ tasks[i].pc = "adjust_call"
        /\ LET r == IncreaseAll(states_tree, state_weights, result.increase, AdjustAmount)
               w == IF r.raised THEN r.weights
                    ELSE DecreaseAll(r.weights, result.decrease, AdjustAmount)
               triggered == get_triggered_states(w)
           IN  /\ state_weights' = w
               /\ tasks' = [tasks EXCEPT
                     ![i] = IF r.raised THEN [pc |-> "failed", triggered_states |-> <<>>]
                            ELSE IF triggered # <<>>
                                 THEN [pc |-> "spont_call", triggered_states |-> triggered]
                                 ELSE [pc |-> "done", triggered_states |-> <<>>]]
               /\ call' = [name |-> "delayed_analysis", step |-> "adjust"]
            /\ UNCHANGED <<states_tree, before, active_nodes, memoryVars, pressure, turnVars,
                       memory_file, mainPc, nCalls>>

Adjust(i) ==
    \E result \in Adjustments : AdjustWith(i, result)

\* generate_spontaneous_response from the result of its collaborator call
\* on: the text is appended to the history and the states that were
\* triggered when the call was made are lowered by 0.4
SpontaneousWith(i, spontaneous_text) ==
        /\ tasks[i].pc = "spont_call"
        /\ conversation_history' =
               Append(conversation_history,
                      [role |-> "bot (spontanno)", content |-> spontaneous_text])
        /\ state_weights' =
               DecreaseAll(state_weights, tasks[i].triggered_states, SpontaneousAttenuation)
        /\ tasks' = [tasks EXCEPT ![i].pc = "done"]
        /\ call' = [name |-> "generate_spontaneous_response", step |-> "attenuate"]
            /\ UNCHANGED <<states_tree, before, active_nodes, short_term_memory, empathy_target,
                       archived, pressure, turnVars, memory_file, mainPc, nCalls>>

Spontaneous(i) ==
    \E spontaneous_text \in SpontaneousTexts : SpontaneousWith(i, spontaneous_text)

NextSession ==
    \/ ReadMessage
    \/ Exit
    \/ Interrupt
    \/ RaiseDetected
    \/ Respond
    \/ \E i \in DOMAIN tasks : Reanalyze(i)
    \/ \E i \in DOMAIN tasks : Adjust(i)
    \/ \E i \in DOMAIN tasks : Spontaneous(i)

SpecSession == InitSession /\ [][NextSession]_vars

\* What the event loop guarantees: a coroutine that can run is run.  A
\* collaborator call returns or fails, the sleep of a task ends, and the
\* code that follows is executed.  Nothing makes the user type: no fairness
\* for ReadMessage and Exit.
SessionFairness ==
    /\ WF_vars(RaiseDetected)
    /\ WF_vars(Respond)
    /\ \A i \in 1..MaxSessionTurns :
          /\ WF_vars(i \in DOMAIN tasks /\ Reanalyze(i))
          /\ WF_vars(i \in DOMAIN tasks /\ Adjust(i))
          /\ WF_vars(i \in DOMAIN tasks /\ Spontaneous(i))

SpecSessionFair == InitSession /\ [][NextSession]_vars /\ SessionFairness

\* ---- ai_mind3.py while the collaborator cannot be reached ----
\* Every call of bam_api_call fails and returns {}: analyze_user_states
\* returns result.get("states", []) = [], generate_response returns
\* result.get("response", "Ya ponimayu tebya..."), delayed_analysis finds no
\* adjustment.  The weights never change, so no task finds a trigger.

DefaultResponse == "Ya ponimayu tebya..."

OutageDetected == <<>>

OutageAdjustment == [increase |-> <<>>, decrease |-> <<>>]

NextOutage ==
    \/ ReadMessage
    \/ Exit
    \/ Interrupt
    \/ RaiseDetectedWith(OutageDetected)
    \/ RespondWith(DefaultResponse, TRUE)
    \/ \E i \in DOMAIN tasks : Reanalyze(i)
    \/ \E i \in DOMAIN tasks : AdjustWith(i, OutageAdjustment)

SpecOutage == InitSession /\ [][NextOutage]_vars

---------------------------------------------------------------------------
(* SpecAttenuate: reduce_weights_after_response applied to the stores that  *)
(* silent turns leave over two states no edge relates, one of them a        *)
(* trigger: each level is 0.7 decayed a number of times, or the cap.        *)

flat_tree ==
    << Node("Trevoga", <<>>, 0),
       Node("Somnenie", <<>>, 0) >>

\* 0.7 * 0.92^n for n = 1, 12, 18, 20, 22, and the cap 1.0
AttenuationLevels == {644, 257, 156, 132, 112, 1000}

AttenuationStores ==
    LET one(name) == {<<>>} \cup {<<<<name, v>>>> : v \in AttenuationLevels}
    IN  {a \o b : a \in one("Trevoga"), b \in one("Somnenie")}
        \cup {b \o a : a \in one("Trevoga"), b \in one("Somnenie")}

InitAttenuate ==
    /\ states_tree = flat_tree
    /\ active_nodes \in AttenuationStores
    /\ short_term_memory = <<>>
    /\ empathy_target = JNull
    /\ conversation_history = <<>>
    /\ archived = <<>>
    /\ pressure = 0
    /\ world_model = <<>>
    /\ world_model_file = <<>>
    /\ returned = JNull
    /\ InitCalls
    /\ NoSession

NextAttenuate == ReduceWeightsAfterResponse

SpecAttenuate == InitAttenuate /\ [][NextAttenuate]_vars

---------------------------------------------------------------------------
(* SpecDecay: the decay step of update_activation applied to a store, once  *)
(* or several times in a row, for the factor of ai_mind2.py, that of        *)
(* ai_mind1.py and their products.                                          *)

DecayLevels == {50, 109, 118, 119, 400, 1000}

DecayFactors == {DecayFactor, 950, Mul(DecayFactor, DecayFactor), Mul(950, 950)}

\* the stores over the first n states of the graph with the given levels
RECURSIVE DecayStoresOver(_, _)
DecayStoresOver(tree, n) ==
    IF n = 0 THEN {<<>>}
    ELSE LET shorter == DecayStoresOver(tree, n - 1)
         IN  shorter \cup
             {Append(d, <<tree[n].nazvanie, v>>) : d \in shorter, v \in DecayLevels}

InitDecay ==
    /\ states_tree \in Graphs
    /\ active_nodes \in DecayStoresOver(states_tree, 2)
    /\ short_term_memory = <<>>
    /\ empathy_target = JNull
    /\ conversation_history = <<>>
    /\ archived = <<>>
    /\ pressure = 0
    /\ world_model = <<>>
    /\ world_model_file = <<>>
    /\ returned = JNull
    /\ InitCalls
    /\ NoSession

\* one decay step; the call record counts the steps made in a row with the
\* same factor and keeps the store they started from
DecayAll ==
    \E factor \in DecayFactors :
        /\ nCalls < MaxDecays
        /\ active_nodes' = DecayStep(active_nodes, factor)
        /\ LET again == call.name = "decay" /\ call.factor = factor
           IN  call' = [name |-> "decay", factor |-> factor,
                        count |-> IF again THEN call.count + 1 ELSE 1,
                        origin |-> IF again THEN call.origin ELSE active_nodes]
        /\ before' = active_nodes
        /\ nCalls' = nCalls + 1
        /\ UNCHANGED <<states_tree, memoryVars, pressure, turnVars, v3Vars>>

NextDecay == DecayAll

SpecDecay == InitDecay /\ [][NextDecay]_vars

---------------------------------------------------------------------------
(* What the claims speak of, stated on the graph and the store as mappings. *)

RECURSIVE SumOf(_)
SumOf(f) ==
    IF DOMAIN f = {} THEN 0
    ELSE LET k == CHOOSE x \in DOMAIN f : TRUE
         IN  f[k] + SumOf([x \in DOMAIN f \ {k} |-> f[x]])

Level(d, k) == IF k \in Keys(d) THEN AsMap(d)[k] ELSE 0

\* the states that `child` lists as conditions
ConditionsOf(tree, child) ==
    UNION {Range(tree[i].usloviya) : i \in {j \in 1..Len(tree) : tree[j].nazvanie = child}}

\* the parents of `child` that propagate: present in the store at 0.1 or more
ActiveParents(tree, d, child) ==
    {p \in Keys(d) : p \in ConditionsOf(tree, child) /\ Level(d, p) * 10 >= Scale}

\* the influence `child` accumulates in one iteration from the store d:
\* half of each active parent, summed, at most 1.0
AccumulatedInfluence(tree, d, child) ==
    Min(Scale, SumOf([p \in ActiveParents(tree, d, child) |-> Level(d, p) \div 2]))

ValuesInUnitInterval(d) == \A i \in 1..Len(d) : d[i][2] >= 0 /\ d[i][2] <= Scale

OneIteration == call.name = "propagate_activation" /\ call.iterations = 1

---------------------------------------------------------------------------
(* Claims.                                                                 *)

\* C1: after every single update_activation, propagate_activation or
\* reduce_weights_after_response call, whatever the lists and the graph,
\* every value stored in active_nodes lies in [0, 1].
C1_ActivationWithinBounds == ValuesInUnitInterval(active_nodes)

\* C1 witness: a propagation whose sum for a present child passed 1.0 and was
\* capped.
C1_Witness ==
    /\ OneIteration
    /\ \E k \in Keys(before) :
          /\ Level(before, k) + AccumulatedInfluence(states_tree, before, k) > Scale
          /\ Level(active_nodes, k) = Scale

\* C3: after any number of archive_current_state calls short_term_memory
\* holds at most 5 entries, and they are exactly the most recent (up to 5)
\* entries that were appended, in the order they were appended; the 6th
\* append removes the oldest entry and no other.
C3_MemoryKeepsLastFive ==
    /\ Len(short_term_memory) <= 5
    /\ short_term_memory =
          SubSeq(archived, Max(1, Len(archived) - 4), Len(archived))

\* C3 witness: a sixth entry has been appended and the memory holds five.
C3_Witness ==
    /\ Len(archived) >= 6
    /\ Len(short_term_memory) = 5
    /\ short_term_memory[1] = archived[Len(archived) - 4]
    /\ short_term_memory[1] # archived[1]

\* C5: in one propagation iteration a child absent from the store is created
\* only if its accumulated influence is strictly greater than 0.2; with an
\* influence of 0.2 or less it is still absent after the iteration.
C5_CreationAboveThresholdOnly ==
    OneIteration =>
        \A child \in nodes_map(states_tree) \ Keys(before) :
            child \in Keys(active_nodes) =>
                AccumulatedInfluence(states_tree, before, child) * 10 > 2 * Scale

\* C5 witness: a sole parent at 0.4 gives its absent child exactly 0.2, and
\* the child is absent after the iteration.
C5_Witness ==
    /\ OneIteration
    /\ \E child \in nodes_map(states_tree) \ Keys(before) :
          /\ \E p \in Keys(before) :
                /\ ActiveParents(states_tree, before, child) = {p}
                /\ Level(before, p) * 10 = 4 * Scale
          /\ AccumulatedInfluence(states_tree, before, child) * 10 = 2 * Scale
          /\ child \notin Keys(active_nodes)

\* C6: one iteration on a store holding a single parent at 0.8, whose only
\* child is absent, leaves the child at exactly 0.4 and the parent at 0.8; a
\* newly created child always holds exactly its accumulated influence.
C6_NewChildGetsInfluence ==
    OneIteration =>
        /\ \A child \in Keys(active_nodes) \ Keys(before) :
              Level(active_nodes, child) = AccumulatedInfluence(states_tree, before, child)
        /\ \A p, c \in nodes_map(states_tree) :
              ( /\ AsMap(before) = (p :> (8 * Scale) \div 10)
                /\ find_children(states_tree, p) = <<c>>
                /\ c # p )
              => AsMap(active_nodes) = (p :> (8 * Scale) \div 10) @@ (c :> (4 * Scale) \div 10)

\* C6 witness: Gnev alone at 0.8 has created its only child Obektivizaciya.
C6_Witness ==
    /\ OneIteration
    /\ states_tree = test_tree
    /\ AsMap(before) = ("Gnev" :> 800)
    /\ "Obektivizaciya" \in Keys(active_nodes)

\* C7: on the graph of the experiment, from the store {Trevoga: 0.8}, three
\* iterations leave Gnev and Somnenie present with non-zero activation and
\* Trevoga at 0.8, and Pustota is created by no iteration.
C7_EndToEndScenario ==
    ( /\ states_tree = test_tree
      /\ call.name = "propagate_activation"
      /\ AsMap(before) = ("Trevoga" :> 800) )
    => /\ "Pustota" \notin Keys(active_nodes)
       /\ Level(active_nodes, "Trevoga") = 800
       /\ call.iterations = 3 =>
             /\ "Gnev" \in Keys(active_nodes) /\ Level(active_nodes, "Gnev") > 0
             /\ "Somnenie" \in Keys(active_nodes) /\ Level(active_nodes, "Somnenie") > 0

\* C7 witness: the three iterations of the scenario have run.
C7_Witness ==
    /\ states_tree = test_tree
    /\ call.name = "propagate_activation"
    /\ call.iterations = 3
    /\ AsMap(before) = ("Trevoga" :> 800)
    /\ "Gnev" \in Keys(active_nodes)

\* C8: calculate_pressure returns min(1.0, sum over the store of activation
\* times urgency weight), the weight being the table's or 0.5; the result is
\* in [0, 1], it is 0.72 for {Gnev: 0.8}, and the store is left as it was.
C8_PressureIsCappedWeightedSum ==
    call.name = "calculate_pressure" =>
        /\ pressure = Min(Scale,
                SumOf([k \in Keys(before) |->
                          (Level(before, k) *
                             (IF k \in DOMAIN urgency_weights
                              THEN urgency_weights[k] ELSE Scale \div 2)) \div Scale]))
        /\ pressure >= 0 /\ pressure <= Scale
        /\ AsMap(before) = ("Gnev" :> 800) => pressure = 720
        /\ active_nodes = before

\* C8 witness: the pressure of {Gnev: 0.8} has been computed.
C8_Witness ==
    /\ call.name = "calculate_pressure"
    /\ AsMap(before) = ("Gnev" :> 800)
    /\ pressure = 720

\* C2: access to state_weights is serialized between a turn and the delayed
\* re-analysis.  No step of a delayed task changes state_weights while a
\* process_message call is between its first and its last access to them
\* (it awaits generate_response), and no step of a turn changes
\* state_weights while a delayed task is between its read of the weights
\* (for its prompt, or of the triggered list) and the writes derived from it.
C2_StoreAccessSerialized ==
    [][ /\ (mainPc = "generate" /\ mainPc' = "generate")
            => state_weights' = state_weights
        /\ (mainPc' # mainPc /\ \E i \in DOMAIN tasks :
                                   tasks[i].pc \in {"adjust_call", "spont_call"})
            => state_weights' = state_weights ]_vars

\* C4: a delayed task goes on to a spontaneous response exactly when, at the
\* check that follows its adjustments, some weight is >= 1.0, and the
\* triggered list is exactly the names with such a weight: 0.999 does not
\* trigger, 1.0 does.
C4_SpontaneousAtThresholdOnly ==
    [][ \A i \in DOMAIN tasks :
           (tasks[i].pc = "adjust_call" /\ tasks'[i].pc \in {"spont_call", "done"}) =>
               /\ tasks'[i].pc = "spont_call" <=>
                      \E k \in Keys(state_weights') : Level(state_weights', k) >= Scale
               /\ Range(tasks'[i].triggered_states) =
                      {k \in Keys(state_weights') : Level(state_weights', k) >= Scale}
               /\ \A k \in Keys(state_weights') :
                      Level(state_weights', k) = Scale - 1 =>
                          k \notin Range(tasks'[i].triggered_states) ]_vars

\* C4 witness: a task awaits the spontaneous response for Trevoga, which is
\* at 1.0, while Gnev at 0.999 is not among the triggered states.
C4_Witness ==
    /\ \E i \in DOMAIN tasks :
          /\ tasks[i].pc = "spont_call"
          /\ tasks[i].triggered_states = <<"Trevoga">>
    /\ Level(state_weights, "Trevoga") = Scale
    /\ Level(state_weights, "Gnev") = Scale - 1

\* C9: ancestor resolution terminates on every graph, cyclic ones included:
\* every call of _get_parent_states and of increase_state_weight returns.
C9_AncestorResolutionTerminates ==
    call.name \in {"_get_parent_states", "increase_state_weight"} => ~call.raised

\* C10: no ghost states.  Every key of either store is a state of the graph;
\* update_activation does what it does for the lists without the names the
\* graph does not define, and increase_state_weight and
\* decrease_state_weight for such a name leave the weights as they were.
C10_NoGhostStates ==
    /\ Keys(active_nodes) \subseteq nodes_map(states_tree)
    /\ Keys(state_weights) \subseteq nodes_map(states_tree)
    /\ call.name = "update_activation" =>
          LET defined(l) == SelectSeq(l, LAMBDA x : x \in nodes_map(states_tree))
          IN  active_nodes = update_activation(states_tree, before,
                                 defined(call.states_to_activate),
                                 defined(call.states_to_increase))
    /\ (/\ call.name \in {"increase_state_weight", "decrease_state_weight"}
        /\ call.state_name \notin nodes_map(states_tree))
          => state_weights = before /\ ~call.raised

\* C10 witness: update_activation was asked to activate a name the graph
\* does not define, next to one it defines, on a store that held entries.
C10_Witness ==
    /\ call.name = "update_activation"
    /\ call.states_to_activate = <<"Gnev", UnknownState>>
    /\ before # <<>>
    /\ "Gnev" \in Keys(active_nodes)

\* the absolute difference of two levels
Distance(a, b) == IF a < b THEN b - a ELSE a - b

\* C11 as stated: two decay steps with a factor leave exactly the store that
\* one step with the square of the factor leaves, the same entries removed.
C11_DecayComposesExactly ==
    (call.name = "decay" /\ call.count = 2) =>
        active_nodes = DecayStep(call.origin, Mul(call.factor, call.factor))

\* C11 amended: a decay step keeps exactly the entries whose product with
\* the factor is at least 0.1, with that product; two steps with a factor
\* and one step with its square agree up to the rounding of the products:
\* an entry kept by both differs by at most 0.002, and an entry kept by one
\* only is within 0.002 of the limit 0.1 there.
C11_DecayComposesUpToRounding ==
    /\ call.name = "decay" =>
          /\ Keys(active_nodes) =
                {k \in Keys(before) : Mul(Level(before, k), call.factor) >= Epsilon}
          /\ \A k \in Keys(active_nodes) :
                Level(active_nodes, k) = Mul(Level(before, k), call.factor)
    /\ (call.name = "decay" /\ call.count = 2) =>
          LET once == DecayStep(call.origin, Mul(call.factor, call.factor))
          IN  /\ \A k \in Keys(active_nodes) \cap Keys(once) :
                    Distance(Level(active_nodes, k), Level(once, k)) <= 2
              /\ \A k \in Keys(active_nodes) \ Keys(once) :
                    Level(active_nodes, k) < Epsilon + 2
              /\ \A k \in Keys(once) \ Keys(active_nodes) :
                    Level(once, k) < Epsilon + 2

\* C11 witness: two steps with 0.92 have run on a store from which they
\* removed one entry and kept another.
C11_Witness ==
    /\ call.name = "decay" /\ call.count = 2 /\ call.factor = DecayFactor
    /\ Len(call.origin) = 2
    /\ Len(active_nodes) = 1
    /\ active_nodes = DecayStep(call.origin, Mul(DecayFactor, DecayFactor))

\* C12: in every turn the ambient decay is applied exactly once, after the
\* turn's bumps and after its propagation iterations: the store a turn
\* leaves is the bumped store, propagated, then decayed (and attenuated
\* when the turn responded).
C12_DecayOnceAfterPropagation ==
    (call.name = "process_message" /\ ~call.raised) =>
        LET bumped == IncreaseLoop(ActivateLoop(states_tree, before,
                                                call.states_to_activate),
                                   call.states_to_increase)
            faded == DecayLoop(propagate_activation(states_tree, bumped, Iterations))
        IN  active_nodes = IF call.responding
                           THEN reduce_weights_after_response(faded)
                           ELSE faded

\* the decision says respond and names at least one theme
SaysRespond(decision) ==
    /\ Has(decision, "respond") /\ Get(decision, "respond", JNull) = JBool(TRUE)
    /\ Has(decision, "themes") /\ Get(decision, "themes", JNull).type = "list"
    /\ Get(decision, "themes", JNull).items # <<>>

\* C13: a turn that reaches its decision returns a response text exactly
\* when the decision has respond = true and a non-empty list of themes, and
\* then the history gains the user's entry and the bot's entry with that
\* text; in every other case (respond false or missing, themes empty or
\* missing, the decision call failed) it returns None and the history gains
\* the user's entry only.
C13_RespondingIffDecisionAndThemes ==
    [][ (call'.name = "process_message" /\ ~call'.raised /\ nCalls' = nCalls + 1) =>
          LET history == Append(conversation_history, <<"user", "replika">>)
          IN  IF SaysRespond(call'.response_decision)
              THEN /\ returned'.type = "string"
                   /\ call'.responding
                   /\ conversation_history' = Append(history, <<"bot", returned'>>)
              ELSE /\ returned'.type = "null"
                   /\ ~call'.responding
                   /\ conversation_history' = history ]_vars

\* C13 witness: after a responding turn, a turn whose decision said respond
\* but named no theme has ended silent.
C13_Witness ==
    /\ call.name = "process_message" /\ ~call.raised
    /\ call.response_decision = <<<<"respond", JBool(TRUE)>>, <<"themes", JList(<<>>)>>>>
    /\ returned.type = "null"
    /\ Len(conversation_history) = 3
    /\ conversation_history[2][1] = "bot"
    /\ conversation_history[3][1] = "user"

\* C14: every turn that produces a response appends exactly one entry to
\* the memory archive, whatever the activation levels are; a turn that
\* produces no response appends none.
C14_OneEntryPerResponse ==
    [][ (call'.name = "process_message" /\ nCalls' = nCalls + 1) =>
          Len(archived') = Len(archived) + (IF call'.responding THEN 1 ELSE 0) ]_vars

\* C15: on a silent turn nothing changes from the decision on: the store
\* is the one the decision was taken on (bumped, decayed, propagated, not
\* attenuated), the memory archive and the knowledge store are as they
\* were, and the history gains the user's utterance only.
C15_SilentTurnChangesNothing ==
    [][ (/\ call'.name = "process_message" /\ nCalls' = nCalls + 1
         /\ ~call'.raised /\ ~call'.responding) =>
          /\ active_nodes' =
                propagate_activation(states_tree,
                    update_activation(states_tree, active_nodes,
                                      call'.states_to_activate,
                                      call'.states_to_increase),
                    Iterations)
          /\ short_term_memory' = short_term_memory
          /\ archived' = archived
          /\ world_model' = world_model
          /\ world_model_file' = world_model_file
          /\ conversation_history' =
                Append(conversation_history, <<"user", "replika">>) ]_vars

\* C15 witness: a silent turn has followed a responding one, on a store
\* that holds a trigger state and with an entry in the memory.
C15_Witness ==
    /\ call.name = "process_message" /\ ~call.raised /\ ~call.responding
    /\ nCalls = 2
    /\ "Gnev" \in Keys(active_nodes)
    /\ Len(short_term_memory) = 1
    /\ Len(world_model) = 1
    /\ Len(conversation_history) = 3

\* some state is at or above the threshold
Saturated == \E k \in Keys(state_weights) : Level(state_weights, k) >= Scale

\* C16: whenever some state is left at weight >= 1.0, then, unless the
\* session ends, a spontaneous response is eventually produced: a state does
\* not stay saturated, nor is its saturation dropped, without
\* generate_spontaneous_response having completed afterwards.
C16_SaturationLeadsToSpontaneous ==
    Saturated ~> (call.name = "generate_spontaneous_response" \/ mainPc = "exited")


\* C18: when every collaborator call of a turn fails, the turn completes
\* without raising, bumps no state, produces no response (the session is
\* handed None, no bot entry is added to the history, nothing is written to
\* the memory) and leaves the weights as they were.
C18_FailedCallsProduceNoResponse ==
    (call.name = "process_message" /\ call.step = "respond") =>
        /\ returned = JNull
        /\ \A i \in DOMAIN conversation_history : conversation_history[i].role # "bot"
        /\ memory_file = <<>>
        /\ state_weights = InitialWeights(states_tree, <<>>)

\* C19: whatever the shape of the activate and increase_weight fields of
\* the classifier's payload, the turn completes without an exception, and a
\* field that is not a list of names bumps nothing: the store is never left
\* with part of a turn's updates.
C19_MalformedFieldIsEmptyList ==
    call.name = "process_message" =>
        /\ ~call.raised
        /\ returned # Raised
        /\ (Has(call.empathy_response, "activate")
              /\ Iterate(Get(call.empathy_response, "activate", JList(<<>>))).raised
                => call.states_to_activate = <<>>)

\* a file with the graph as a list under the key of the graph (the current
\* one or the former one)
ValidSource(mind_json) ==
    \E k \in {"sostoyaniya", "tehnologii"} :
        Has(mind_json, k) /\ Get(mind_json, k, JNull).type = "list"

\* C20: an engine is constructed from a parsed file only when the file has
\* the key of the graph and a list under it; from any other file the
\* construction fails, and no engine with an empty graph comes out of it.
C20_InvalidSourceFailsToLoad ==
    (call.name = "__init__" /\ ~ValidSource(call.mind_json)) => call.raised

C21_WriteFailureDoesNotAffectTurn ==
    (call.name = "process_message" /\ call.step = "respond") =>
        /\ returned.type = "string"
        /\ Len(tasks) = Len(SelectSeq(conversation_history, LAMBDA m : m.role = "bot"))

\* C22: the delayed task is fire-and-forget.  process_message returns its
\* response with the task it created still asleep; while tasks are pending
\* main can take the next message; and a turn's increase is applied to the
\* weights as the tasks have left them, losing none of their changes.
C22_DelayedTaskIsFireAndForget ==
    /\ [][(call'.name = "process_message" /\ call'.step = "respond"
              /\ returned'.type = "string") =>
             /\ mainPc' = "input"
             /\ Len(tasks') = Len(tasks) + 1
             /\ tasks'[Len(tasks')].pc = "sleep"]_vars
    /\ []((mainPc = "input" /\ nCalls < MaxSessionTurns) => ENABLED ReadMessage)
    /\ [][(call'.name = "process_message" /\ call'.step = "increase") =>
             \E detected_states \in DetectedLists :
                 state_weights' =
                     IncreaseAll(states_tree, state_weights,
                                 SelectSeq(detected_states, LAMBDA x : Has(state_weights, x)),
                                 DetectedAmount).weights]_vars

\* a second turn raises the detected states while the task of the first
\* turn, which has already adjusted the weights, waits for the text of its
\* spontaneous response
C22_Witness ==
    /\ call.name = "process_message" /\ call.step = "increase"
    /\ Len(tasks) = 1
    /\ tasks[1].pc = "spont_call"
    /\ nCalls = 2

Count(l, k) == Len(SelectSeq(l, LAMBDA x : x = k))

Absent == 0 - 1

\* the level the claim gives state k after update_activation(activate,
\* increase) on store d, Absent when it has no entry: a known state named n
\* times by activate is entered at 0.7 and raised by 0.4 per further naming,
\* or raised by 0.4 per naming when it was there; an entry is raised by 0.2
\* per naming by increase; what is left is decayed once
LevelAfterBumps(tree, d, activate, increase, k) ==
    LET nA == IF k \in nodes_map(tree) THEN Count(activate, k) ELSE 0
        afterA == IF nA = 0 THEN (IF Has(d, k) THEN Level(d, k) ELSE Absent)
                  ELSE IF Has(d, k) THEN Min(Scale, Level(d, k) + nA * 400)
                  ELSE Min(Scale, 700 + (nA - 1) * 400)
        afterI == IF afterA = Absent THEN Absent
                  ELSE Min(Scale, afterA + Count(increase, k) * 200)
        decayed == IF afterI = Absent THEN Absent ELSE Mul(afterI, DecayFactor)
    IN  IF decayed < Epsilon THEN Absent ELSE decayed

\* C23: activation is a step on first activation and additive afterwards.
\* After update_activation every state has the level given by: entered at
\* 0.7 when absent and named by activate (whatever the bump), min(1.0, level
\* + 0.4) when present; raised by 0.2 (capped at 1.0) by increase only when
\* present; never created by increase; then the decay of the call.
C23_StepThenAdditive ==
    call.name = "update_activation" =>
        \A k \in nodes_map(states_tree) \cup Keys(before) \cup Keys(active_nodes)
                \cup Range(call.states_to_activate) \cup Range(call.states_to_increase) :
            LET expected == LevelAfterBumps(states_tree, before, call.states_to_activate,
                                            call.states_to_increase, k)
            IN  IF expected = Absent THEN ~Has(active_nodes, k)
                ELSE Has(active_nodes, k) /\ Level(active_nodes, k) = expected

\* a call that enters Trevoga, raises Gnev which was there, and increases it
C23_Witness ==
    /\ call.name = "update_activation"
    /\ Has(before, "Gnev") /\ ~Has(before, "Trevoga")
    /\ call.states_to_activate = <<"Trevoga", "Gnev">>
    /\ call.states_to_increase = <<"Gnev">>
    /\ Level(active_nodes, "Trevoga") = Mul(700, DecayFactor)

\* C24: membership in the store means activation >= 0.1: after every
\* operation and every turn, each entry of the store is at 0.1 or above.
C24_MembershipMeansAtLeastEpsilon ==
    \A k \in Keys(active_nodes) : Level(active_nodes, k) >= Epsilon

\* C25: at most one turn is in flight.  A process_message call starts only
\* when main is at its input, the previous call having returned or raised;
\* and the weights are changed only by the turn in flight, at its increase,
\* or by a delayed task.
C25_OneTurnInFlight ==
    [][/\ (call'.name = "process_message" /\ call'.step = "history") => mainPc = "input"
       /\ (state_weights' # state_weights) =>
              \/ call'.name \in {"delayed_analysis", "generate_spontaneous_response"}
              \/ call'.name = "process_message" /\ call'.step = "increase"
                    /\ mainPc = "analyze"]_vars

\* the second turn of a session is in flight, the task of the first one
\* still asleep
C25_Witness ==
    /\ nCalls = 2
    /\ mainPc = "generate"
    /\ Len(tasks) = 1 /\ tasks[1].pc = "sleep"
    /\ state_weights # InitialWeights(states_tree, <<>>)

\* the defined states reachable from the states of `frontier` by condition
\* edges, `seen` being those already reached
RECURSIVE ReachedBy(_, _, _)
ReachedBy(tree, frontier, seen) ==
    LET next == (UNION {ConditionsOf(tree, x) : x \in frontier} \cap nodes_map(tree)) \ seen
    IN  IF next = {} THEN seen ELSE ReachedBy(tree, next, seen \cup next)

\* the defined states reachable from s by one or more condition edges
Ancestors(tree, s) == ReachedBy(tree, {s} \cap nodes_map(tree), {})

Acyclic(tree) == \A s \in nodes_map(tree) : s \notin Ancestors(tree, s)

\* C26: on an acyclic graph _get_parent_states(s) returns exactly the
\* defined states reachable from s by one or more condition edges; undefined
\* conditions contribute nothing, s is not in the result, and the result for
\* an undefined s is empty.
C26_ParentsAreTransitiveClosure ==
    (call.name = "_get_parent_states" /\ Acyclic(states_tree)) =>
        /\ ~call.raised
        /\ call.parents = Ancestors(states_tree, call.state_name)
        /\ call.state_name \notin call.parents
        /\ call.parents \subseteq nodes_map(states_tree)
        /\ (call.state_name \notin nodes_map(states_tree) => call.parents = {})

\* Gnev of the diamond: two defined conditions and an undefined one, and
\* their common parent
C26_Witness ==
    /\ call.name = "_get_parent_states"
    /\ call.state_name = "Gnev"
    /\ Acyclic(states_tree)
    /\ call.parents = {"Trevoga", "Sozhalenie", "Pustota"}
    /\ \E c \in ConditionsOf(states_tree, "Gnev") : c \notin nodes_map(states_tree)

AttenuatedByFactors ==
    /\ Keys(active_nodes) \subseteq Keys(before)
    /\ \A k \in Keys(before) :
          LET v == Mul(Level(before, k), IF k \in trigger_nodes THEN 400 ELSE 700)
          IN  /\ Has(active_nodes, k) <=> v >= Epsilon
              /\ Has(active_nodes, k) => Level(active_nodes, k) = v
              /\ Level(active_nodes, k) < Level(before, k)

\* trigger state t is lower, relative to its level before, than state n
RelativelyLower(t, n) ==
    Level(active_nodes, t) * Level(before, n) < Level(active_nodes, n) * Level(before, t)

\* C28 as stated: after the attenuation every trigger state is lower,
\* relative to its level before the response, than any non-trigger state of
\* the store, the factors being 0.4 and 0.7 and entries below 0.1 removed.
C28_TriggersLowerThanAnyOther ==
    call.name = "reduce_weights_after_response" =>
        /\ AttenuatedByFactors
        /\ \A t \in Keys(before) \cap trigger_nodes, n \in Keys(before) \ trigger_nodes :
              RelativelyLower(t, n)

\* C28 amended: the attenuation multiplies every trigger entry by 0.4 and
\* every other entry by 0.7, removes those that fall below 0.1, creates and
\* raises none; every entry is strictly lower than before, and a trigger
\* state is lower relative to its level before than any non-trigger state
\* that remains in the store.
C28_TriggersLowerThanRemaining ==
    call.name = "reduce_weights_after_response" =>
        /\ AttenuatedByFactors
        /\ \A t \in Keys(before) \cap trigger_nodes, n \in Keys(active_nodes) \ trigger_nodes :
              RelativelyLower(t, n)

\* both entries attenuated and kept, the trigger more than the other
C28_Witness ==
    /\ call.name = "reduce_weights_after_response"
    /\ Level(before, "Somnenie") = 644 /\ Level(active_nodes, "Somnenie") = 257
    /\ Level(before, "Trevoga") = 257 /\ Level(active_nodes, "Trevoga") = 179

\* C29: deactivation is passive.  A weight goes down only in the
\* attenuation that follows a spontaneous response (the engine of this
\* session has no ambient decay), never in a step that applies what the
\* collaborator returned.
C29_NoDecreaseByCollaborator ==
    [][(\E k \in Keys(state_weights) :
            Level(state_weights', k) < Level(state_weights, k))
          => call'.name = "generate_spontaneous_response"]_vars

\* C30: every turn runs its stages in the one order, none skipped.  The
\* store is bumped and decayed from the classification, then propagated 3
\* times; the pressure of the decision is that of the propagated store; a
\* responding turn then returns the generated response, archives the
\* propagated store and leaves it attenuated; a silent turn returns None and
\* leaves the propagated store.
C30_StagesInOrder ==
    call.name = "process_message" =>
        LET updated == update_activation(states_tree, before, call.states_to_activate,
                                         call.states_to_increase)
            propagated == propagate_activation(states_tree, updated, Iterations)
        IN  /\ pressure = calculate_pressure(propagated)
            /\ IF call.responding
               THEN /\ returned.type = "string"
                    /\ active_nodes = reduce_weights_after_response(propagated)
                    /\ significant_states(propagated) # <<>> =>
                          /\ archived # <<>>
                          /\ archived[Len(archived)].states = significant_states(propagated)
               ELSE /\ returned = JNull
                    /\ active_nodes = propagated

\* the concepts of a batch, as update_world_model reads them
BatchOf(result) ==
    LET new_concepts == Get(result, "concepts", JList(<<>>))
    IN  IF new_concepts.type = "list" THEN new_concepts.items ELSE <<>>

\* C31: from the empty knowledge store, after any sequence of batches the
\* concept at position i (from 0) has the id concept_ followed by i in four
\* digits, so that all ids differ; a batch leaves the concepts already in the
\* store as they were and where they were; after a non-empty batch the file
\* holds the store, and an empty batch does not write the file.
C31_SequentialIdsAppendOnlyPersisted ==
    /\ [](\A i \in DOMAIN world_model :
              /\ Get(world_model[i].items, "id", JNull) = concept_id(i - 1)
              /\ \A j \in DOMAIN world_model :
                    i # j => Get(world_model[i].items, "id", JNull)
                                # Get(world_model[j].items, "id", JNull))
    /\ [](call.name = "update_world_model" /\ BatchOf(call.result) # <<>>
              => world_model_file = world_model)
    /\ [][/\ Len(world_model') >= Len(world_model)
          /\ \A i \in DOMAIN world_model : world_model'[i] = world_model[i]
          /\ (call'.name = "update_world_model" /\ BatchOf(call'.result) = <<>>)
                => world_model_file' = world_model_file]_vars

\* C32: increase_state_weight(s, a) for a state s of the graph raises the
\* weight of s by a and the weight of every ancestor of s by a / 2, once
\* each however many paths lead to it, each capped at 1.0, and leaves every
\* other weight, those of the descendants of s among them, as it was.
C32_AncestorsRaisedOnceOthersUnchanged ==
    (call.name = "increase_state_weight" /\ call.state_name \in nodes_map(states_tree)) =>
        /\ Keys(state_weights) = Keys(before)
        /\ \A k \in Keys(before) :
              Get(state_weights, k, Absent) =
                  IF k = call.state_name
                  THEN Min(Scale, Get(before, k, Absent) + call.amount)
                  ELSE IF k \in Ancestors(states_tree, call.state_name)
                  THEN Min(Scale, Get(before, k, Absent) + Mul(call.amount, AncestorFactor))
                  ELSE Get(before, k, Absent)

\* the weighted sum of a store of WeightSystemTest, capped at 1.0
CappedWeightedPressure(d) ==
    Min(Scale, SumOf([k \in Keys(d) |->
                         (Level(d, k) * (IF k \in DOMAIN test_urgency_weights
                                         THEN test_urgency_weights[k]
                                         ELSE Scale \div 2)) \div Scale]))

\* C33: should_respond(threshold) returns true exactly when the capped
\* weighted pressure of the store is at least the threshold, equality
\* included.  With the default 0.7, Gnev alone at 0.8 (pressure 0.72)
\* responds; Somnenie alone at 0.9 and O gryozah alone at 0.95 do not.
C33_ThresholdIsInclusive ==
    call.name = "should_respond" =>
        /\ returned = JBool(CappedWeightedPressure(active_nodes) >= call.threshold)
        /\ call.threshold = DefaultThreshold =>
              /\ AsMap(active_nodes) = ("Gnev" :> 800) => pressure = 720 /\ returned = JBool(TRUE)
              /\ AsMap(active_nodes) = ("Somnenie" :> 900) => returned = JBool(FALSE)
              /\ AsMap(active_nodes) = ("O gryozah" :> 950) => returned = JBool(FALSE)

\* C33 witness: Utochnenie alone at 1.0 has pressure 0.7, which is the
\* default threshold itself, and the answer is yes.
C33_Witness ==
    /\ call.name = "should_respond"
    /\ call.threshold = DefaultThreshold
    /\ AsMap(active_nodes) = ("Utochnenie" :> 1000)
    /\ pressure = call.threshold
    /\ returned = JBool(TRUE)

\* the items of a store in the opposite order
Reversed(d) == [i \in 1..Len(d) |-> d[Len(d) + 1 - i]]

\* C34: in one iteration every influence is computed from the store as it
\* was when the iteration started and applied afterwards.  A state present
\* at the start ends at min(1.0, its level + the sum over its parents active
\* at the start (0.1 or more) of half the level they had at the start, that
\* sum capped at 1.0); a state absent at the start is created at that sum
\* when it exceeds 0.2; nothing else enters the store.  The same store
\* results when the states are visited in the opposite order.
C34_InfluencesFromIterationStart ==
    OneIteration =>
        /\ Keys(active_nodes) \subseteq Keys(before) \cup nodes_map(states_tree)
        /\ \A k \in Keys(before) :
              Level(active_nodes, k) =
                  Min(Scale, Level(before, k) + AccumulatedInfluence(states_tree, before, k))
        /\ \A k \in nodes_map(states_tree) \ Keys(before) :
              IF AccumulatedInfluence(states_tree, before, k) * 10 > 2 * Scale
              THEN /\ k \in Keys(active_nodes)
                   /\ Level(active_nodes, k) = AccumulatedInfluence(states_tree, before, k)
              ELSE k \notin Keys(active_nodes)
        /\ AsMap(active_nodes) = AsMap(PropagateIteration(states_tree, Reversed(before)))

\* C34 witness: Gnev of the diamond is fed by Trevoga and Sozhalenie, both
\* active, under a root too weak to contribute; Trevoga, itself a child of
\* that root, is left as it was and Gnev got both halves at once.
C34_Witness ==
    /\ OneIteration
    /\ states_tree = diamond_tree
    /\ AsMap(before) = ("Pustota" :> 50) @@ ("Trevoga" :> 800) @@ ("Sozhalenie" :> 400)
    /\ AsMap(active_nodes) = ("Pustota" :> 50) @@ ("Trevoga" :> 800) @@
                             ("Sozhalenie" :> 400) @@ ("Gnev" :> 600)

\* the store at the start of iteration j + 1 of the last propagate_activation
StoreAtIteration(j) == propagate_activation(states_tree, before, j)

\* the state has a parent that is active (0.1 or more) at the start of one
\* of the iterations of the last call
FedInSomeIteration(k) ==
    \E j \in 0..(call.iterations - 1) :
        ActiveParents(states_tree, StoreAtIteration(j), k) # {}

\* C35: propagate_activation lowers no entry and removes none; a state whose
\* level changed, or that entered the store, is a child of a state that was
\* active at the start of an iteration; a state with no such parent, a root
\* among them, is as it was.
C35_MonotoneAndDownstreamOnly ==
    call.name = "propagate_activation" =>
        /\ \A k \in Keys(before) :
              /\ k \in Keys(active_nodes)
              /\ Level(active_nodes, k) >= Level(before, k)
        /\ \A k \in Keys(active_nodes) \cup Keys(before) :
              (k \notin Keys(before) \/ Level(active_nodes, k) # Level(before, k))
                  => /\ k \in nodes_map(states_tree)
                     /\ FedInSomeIteration(k)
        /\ \A k \in Keys(before) :
              ConditionsOf(states_tree, k) = {} => Level(active_nodes, k) = Level(before, k)

\* C35 witness: three iterations from Trevoga and Gnev active on the graph
\* of the experiment.  Gnev, the child of Trevoga, has risen; Trevoga, the
\* parent of Gnev and the child of the absent root, is as it was, and the
\* root has not entered the store.
C35_Witness ==
    /\ call.name = "propagate_activation"
    /\ call.iterations = Iterations
    /\ states_tree = test_tree
    /\ AsMap(before) = ("Trevoga" :> 300) @@ ("Gnev" :> 300)
    /\ Level(active_nodes, "Gnev") > 300
    /\ Level(active_nodes, "Trevoga") = 300
    /\ "Pustota" \notin Keys(active_nodes)
    /\ "Obektivizaciya" \in Keys(active_nodes)

\* during the last propagate_activation p stayed at the level it had at the
\* start and was, at the start of every iteration, the only active parent
\* of c
SoleParentHeld(p, c) ==
    \A j \in 0..(call.iterations - 1) :
        /\ ActiveParents(states_tree, StoreAtIteration(j), c) = {p}
        /\ Level(StoreAtIteration(j), p) = Level(before, p)

\* C36: the influence of a parent that stays active is applied again in
\* every iteration.  A child absent at the start, whose sole active parent
\* is held at a level a with a / 2 above 0.2, stands at min(1.0, k * a / 2)
\* after k iterations.  On the graph of the experiment, from {Trevoga: 0.8},
\* three iterations end with Gnev and Somnenie at 1.0 and Obektivizaciya at
\* 0.4, and Obektivizaciya is not yet there after two.
C36_InfluenceReappliedEachIteration ==
    call.name = "propagate_activation" =>
        /\ \A p \in Keys(before), c \in nodes_map(states_tree) \ Keys(before) :
              ( /\ Level(before, p) * 10 >= Scale
                /\ (Level(before, p) \div 2) * 10 > 2 * Scale
                /\ SoleParentHeld(p, c) )
              => Level(active_nodes, c) =
                     Min(Scale, call.iterations * (Level(before, p) \div 2))
        /\ (states_tree = test_tree /\ AsMap(before) = ("Trevoga" :> 800)) =>
              /\ call.iterations = 3 =>
                    AsMap(active_nodes) = ("Trevoga" :> 800) @@ ("Gnev" :> 1000) @@
                                          ("Somnenie" :> 1000) @@ ("Obektivizaciya" :> 400)
              /\ call.iterations = 2 =>
                    AsMap(active_nodes) = ("Trevoga" :> 800) @@ ("Gnev" :> 800) @@
                                          ("Somnenie" :> 800)

\* C36 witness: the end-to-end scenario has run its three iterations; Gnev,
\* whose sole parent Trevoga stayed at 0.8, got 0.4 three times.
C36_Witness ==
    /\ call.name = "propagate_activation"
    /\ call.iterations = 3
    /\ states_tree = test_tree
    /\ AsMap(before) = ("Trevoga" :> 800)
    /\ SoleParentHeld("Trevoga", "Gnev")
    /\ Level(active_nodes, "Gnev") = Scale
    /\ Level(active_nodes, "Obektivizaciya") = 400

\* C37: on an acyclic graph, whatever store the session has reached, turns
\* in which the collaborator names no state and no response is produced lead
\* to the empty store: every activation falls below 0.1 and is removed,
\* although each of these turns propagates from parents to children.
C37_QuietTurnsEmptyTheStore ==
    (Quiet /\ active_nodes # <<>>) ~> (Quiet /\ active_nodes = <<>>)

\* C37 witness: on the graph of the experiment a quiet turn has removed the
\* last entry, Obektivizaciya, the end of the chain, which no turn named
\* and propagation alone had created and fed, more than eighty quiet turns
\* after the session fell quiet.
C37_Witness ==
    /\ Quiet
    /\ Acyclic(states_tree)
    /\ states_tree = test_tree
    /\ Keys(before) = {"Obektivizaciya"}
    /\ active_nodes = <<>>
    /\ nCalls > MaxLoudTurns + 80

\* task i delivers its spontaneous response in this step
Delivers(i) ==
    /\ i \in DOMAIN tasks
    /\ tasks[i].pc = "spont_call"
    /\ tasks'[i].pc = "done"

\* C38: one saturation yields at most one spontaneous response and one
\* attenuation by 0.4.  When a delayed task delivers the spontaneous
\* response for the states it found at 1.0, no other delayed task is in the
\* middle of generating a response for one of the same states.
C38_OneSpontaneousResponsePerSaturation ==
    [][\A i, j \in DOMAIN tasks :
          (i # j /\ Delivers(i) /\ tasks[j].pc = "spont_call")
              => Range(tasks[i].triggered_states) \cap Range(tasks[j].triggered_states) = {}]_vars

\* C39: a spontaneous firing discharges what fired.  When a delayed task
\* delivers its spontaneous response, whatever ran between its start and
\* now, every state it found at 1.0 when it started stands at 0.6 or less,
\* and the history has gained exactly one entry, of the spontaneous role,
\* the entries before it unchanged.
C39_FiringDischargesWhatFired ==
    [][\A i \in DOMAIN tasks :
          Delivers(i) =>
              /\ \A s \in Range(tasks[i].triggered_states) :
                    /\ Has(state_weights', s)
                    /\ Get(state_weights', s, Scale) <= SpontaneousThreshold - SpontaneousAttenuation
                    /\ Get(state_weights', s, Scale) < SpontaneousThreshold
              /\ Len(conversation_history') = Len(conversation_history) + 1
              /\ SubSeq(conversation_history', 1, Len(conversation_history)) = conversation_history
              /\ conversation_history'[Len(conversation_history')].role = "bot (spontanno)"]_vars

\* C39 witness: two delayed tasks found Trevoga at 1.0, the second while
\* the first was awaiting its generation; both have delivered.  After the
\* first delivery Trevoga stood at 0.6, after the second it stands at 0.2,
\* and each delivery added one spontaneous entry.
C39_Witness ==
    /\ call.name = "generate_spontaneous_response"
    /\ Len(tasks) = 2
    /\ tasks[1].pc = "done"
    /\ tasks[2].pc = "done"
    /\ tasks[1].triggered_states = <<"Trevoga">>
    /\ tasks[2].triggered_states = <<"Trevoga">>
    /\ Get(state_weights, "Trevoga", Scale) = 200
    /\ conversation_history[Len(conversation_history)].role = "bot (spontanno)"
    /\ Len(SelectSeq(conversation_history, LAMBDA m : m.role = "bot (spontanno)")) = 2

====
